---- MODULE Spec2Model ----
(***************************************************************************)
(* A model of the planar kernel of petrify: the sweep-line trapezoidal     *)
(* decomposition (petrify/decompose.py, trapezoidal), the fragment /       *)
(* decouple / recreate_polygons / rebuild pipeline (petrify/decompose.py)  *)
(* and the polygon offset entry points (petrify/plane/__init__.py,         *)
(* petrify/engines/pyoffset.py).                                           *)
(*                                                                         *)
(* Points are pairs <<x, y>> of integers, segments are pairs <<p1, p2>> of *)
(* points (ExactSegment keeps both endpoints), polygons are sequences of   *)
(* points.  The X of a wall at a sweep level is a rational; it is kept     *)
(* exactly as an integer multiple of 1/Scale.                              *)
(***************************************************************************)
EXTENDS Integers, Sequences, FiniteSets, TLC

(***************************************************************************)
(* Bounds of the input families.                                           *)
(***************************************************************************)
\* Polygons of the generated family have their vertices on 0..GridMax squared.
GridMax == 2
\* Polygons of the generated family have 3..MaxVerts vertices.
MaxVerts == 3

\* Python's None, and a value that may be None: <<>> or <<v>> where the
\* value is a number (a point, a segment or a polygon is never <<>>).
None == <<>>

Some(v) == <<v>>

(***************************************************************************)
(* Sequences.                                                              *)
(***************************************************************************)
Range(s) == {s[i] : i \in 1..Len(s)}

RECURSIVE SumSeq(_)
SumSeq(s) == IF s = <<>> THEN 0 ELSE Head(s) + SumSeq(Tail(s))

RECURSIVE Flatten(_)
Flatten(ss) == IF ss = <<>> THEN <<>> ELSE Head(ss) \o Flatten(Tail(ss))

Reverse(s) == [i \in 1..Len(s) |-> s[Len(s) + 1 - i]]

\* s rotated to start at its (n+1)-th element: points[n:] + points[:n].
Shift(s, n) == [i \in 1..Len(s) |-> s[((i - 1 + n) % Len(s)) + 1]]

Abs(v) == IF v < 0 THEN -v ELSE v

Min(a, b) == IF a <= b THEN a ELSE b

Max(a, b) == IF a >= b THEN a ELSE b

\* Python's list.sort / sorted on pairs <<key, value>> keyed by the first
\* component: ascending and stable (equal keys keep their order).
RECURSIVE SortByKey(_)
SortByKey(s) ==
    IF Len(s) <= 1 THEN s
    ELSE LET rest == SortByKey(SubSeq(s, 1, Len(s) - 1))
             x    == s[Len(s)]
             k    == Cardinality({i \in 1..Len(rest) : rest[i][1] <= x[1]})
         IN  SubSeq(rest, 1, k) \o <<x>> \o SubSeq(rest, k + 1, Len(rest))

Values(pairs) == [i \in 1..Len(pairs) |-> pairs[i][2]]

\* The elements of a set of integers in ascending order: sorted(set(...)).
RECURSIVE SortedSet(_)
SortedSet(S) ==
    IF S = {} THEN <<>>
    ELSE LET m == CHOOSE x \in S : \A y \in S : x <= y
         IN  <<m>> \o SortedSet(S \ {m})

RECURSIVE Gcd(_, _)
Gcd(a, b) == IF b = 0 THEN a ELSE Gcd(b, a % b)

Lcm(a, b) == (a * b) \div Gcd(a, b)

RECURSIVE LcmUpTo(_)
LcmUpTo(n) == IF n <= 1 THEN 1 ELSE Lcm(n, LcmUpTo(n - 1))

(***************************************************************************)
(* Polygons (petrify/plane/__init__.py, Polygon2) and their segments.      *)
(***************************************************************************)
\* exact_segments(p): zip(points, points[1:] + [points[0]]).
exact_segments(points) ==
    [i \in 1..Len(points) |-> <<points[i], points[(i % Len(points)) + 1]>>]

\* Polygon2.clockwise: sum((p2.x - p1.x) * (p2.y + p1.y)) > 0.
clockwise(points) ==
    SumSeq([i \in 1..Len(points) |->
        LET l == exact_segments(points)[i]
        IN  (l[2][1] - l[1][1]) * (l[2][2] + l[1][2])]) > 0

inverted(points) == Reverse(points)

to_clockwise(points) == IF clockwise(points) THEN points ELSE inverted(points)

(***************************************************************************)
(* The sweep of trapezoidal (petrify/decompose.py).                        *)
(***************************************************************************)
\* Every |dy| of a wall of the inputs divides Scale, so the X of a wall at a
\* level, a rational, is an exact multiple of 1/Scale.
MaxCoord == Max(GridMax + 2, 7)

Scale == LcmUpTo(MaxCoord)

\* yl(segment, y): the point <<X * Scale, y>> at which the segment meets the
\* horizontal line at y (_intersect_line2_line2 with A the line and B the
\* segment); None when the segment is horizontal (d == 0) or does not reach
\* y (ub outside [0, 1]).
yl(l, y) ==
    LET vx == l[2][1] - l[1][1]
        vy == l[2][2] - l[1][2]
        dy == y - l[1][2]
    IN  IF vy = 0 THEN None
        ELSE IF (vy > 0 /\ (dy < 0 \/ dy > vy)) \/ (vy < 0 /\ (dy > 0 \/ dy < vy))
        THEN None
        ELSE IF vy > 0 THEN <<(Scale * (vx * dy + vy * l[1][1])) \div vy, y>>
        ELSE <<(Scale * (0 - (vx * dy + vy * l[1][1]))) \div (0 - vy), y>>

\* Sliced.__init__: the segments paired with their lower Y, sorted by it.
SlicedHeap(points) ==
    SortByKey([i \in 1..Len(points) |->
        LET l == exact_segments(points)[i]
        IN  <<Min(l[1][2], l[2][2]), l>>])

\* Sliced.departures, the pairs taken: itertools.takewhile(pair[0] == y).
TakeWhile(heap, y) ==
    LET k == CHOOSE j \in 0..Len(heap) :
                 /\ \A i \in 1..j : heap[i][1] = y
                 /\ (j < Len(heap) => heap[j + 1][1] # y)
    IN  SubSeq(heap, 1, k)

\* Sliced.departures, the value returned: the taken segments that do not lie
\* on the level with both endpoints.
departures(heap, y) ==
    LET output == TakeWhile(heap, y)
        keep   == {i \in 1..Len(output) :
                      output[i][2][1][2] # y \/ output[i][2][2][2] # y}
    IN  [j \in 1..Cardinality(keep) |->
            output[CHOOSE i \in keep :
                       Cardinality({h \in keep : h < i}) = j - 1][2]]

\* A queue that is not the code's: nothing is taken off it.
HeapKept(heap, y) == heap

\* Sliced.departures, the queue left behind.
HeapAfter(heap, y) == SubSeq(heap, Len(TakeWhile(heap, y)) + 1, Len(heap))

\* order = {l: ix for p in sliced for ix, l in enumerate(p.segments())}: the
\* index of l in the last polygon that has it.
order(polys, l) ==
    LET at == {<<pi, ix>> \in (1..Len(polys)) \X (1..MaxCoord * 4) :
                  ix <= Len(polys[pi]) /\ exact_segments(polys[pi])[ix] = l}
        last == CHOOSE c \in at : \A d \in at : d[1] <= c[1]
    IN  last[2] - 1

\* A grouping that is not grouper's: every wall paired with its right
\* neighbour, so that a wall between two others is in two pairs.
grouper_sliding(walls) ==
    [i \in 1..(Len(walls) - 1) |-> <<walls[i], walls[i + 1]>>]

\* grouper(2, walls): consecutive pairs, the last one filled with None.
grouper(walls) ==
    [i \in 1..((Len(walls) + 1) \div 2) |->
        <<walls[2 * i - 1],
          IF 2 * i <= Len(walls) THEN walls[2 * i] ELSE None>>]

\* The body of "for a in active" for one pair: the pair sorted by order.
SortedPair(polys, a) ==
    Values(SortByKey(<<<<order(polys, a[1]), a[1]>>, <<order(polys, a[2]), a[2]>>>>))

\* The trapezoid appended for one pair: [yl(a[0], prior), a0, a1, yl(a[1], prior)].
Trapezoid(a, prior, level) ==
    <<yl(a[1], prior), yl(a[1], level), yl(a[2], level), yl(a[2], prior)>>

\* A loop body that is not the code's: both walls of a pair continue,
\* whether they end at the level or not.
Staying(a, level) == << <<yl(a[1], level)[1], a[1]>>, <<yl(a[2], level)[1], a[2]>> >>

\* The walls of one pair that continue above the level, as (x, wall).
Continuing(a, level) ==
    (IF a[1][1][2] # level /\ a[1][2][2] # level
        THEN << <<yl(a[1], level)[1], a[1]>> >> ELSE <<>>)
    \o
    (IF a[2][1][2] # level /\ a[2][2][2] # level
        THEN << <<yl(a[2], level)[1], a[2]>> >> ELSE <<>>)

\* A pair the loop body cannot process: the fill value None has no order
\* (KeyError), and a wall that does not reach the level or the prior level
\* has no intersection point (yl returns None).
BadPair(a, prior, level) ==
    \/ a[2] = None
    \/ yl(a[1], level) = None \/ yl(a[2], level) = None
    \/ yl(a[1], prior) = None \/ yl(a[2], prior) = None

\* tri_area(a, b, c), times 2 * Scale.
tri_area(a, b, c) ==
    Abs(a[1] * (b[2] - c[2]) + b[1] * (c[2] - a[2]) + c[1] * (a[2] - b[2]))

\* trap_area(polygon), times 2 * Scale.
trap_area(t) == tri_area(t[1], t[2], t[3]) + tri_area(t[2], t[3], t[4])

\* AbstractPolygon.simplify: the points that differ from the point kept
\* before them, the last point being before the first; None below 3 points.
\* Model coordinates are multiples of 1/Scale, coarser than the tolerance, so
\* two points snap to the same place only when they are equal.
RECURSIVE SimplifyFrom(_, _)
SimplifyFrom(points, prior) ==
    IF points = <<>> THEN <<>>
    ELSE IF Head(points) = prior THEN SimplifyFrom(Tail(points), prior)
    ELSE <<Head(points)>> \o SimplifyFrom(Tail(points), Head(points))

simplify(points) ==
    LET kept == SimplifyFrom(points, points[Len(points)])
    IN  IF Len(kept) > 2 THEN kept ELSE None

SelectSeq2(s, keep) ==
    [j \in 1..Cardinality(keep) |->
        s[CHOOSE i \in keep : Cardinality({h \in keep : h < i}) = j - 1]]

(***************************************************************************)
(* The inputs of trapezoidal: simple polygons that do not cross or repeat. *)
(***************************************************************************)
\* Twice the signed area of the triangle a, b, c.
Cross(a, b, c) == (b[1] - a[1]) * (c[2] - a[2]) - (b[2] - a[2]) * (c[1] - a[1])

\* c lies on the closed segment a-b.
OnSegment(a, b, c) ==
    /\ Cross(a, b, c) = 0
    /\ Min(a[1], b[1]) <= c[1] /\ c[1] <= Max(a[1], b[1])
    /\ Min(a[2], b[2]) <= c[2] /\ c[2] <= Max(a[2], b[2])

Sign(v) == IF v > 0 THEN 1 ELSE IF v < 0 THEN -1 ELSE 0

\* The closed segments l and m have a point in common.
Touch(l, m) ==
    \/ /\ Sign(Cross(l[1], l[2], m[1])) * Sign(Cross(l[1], l[2], m[2])) < 0
       /\ Sign(Cross(m[1], m[2], l[1])) * Sign(Cross(m[1], m[2], l[2])) < 0
    \/ OnSegment(l[1], l[2], m[1]) \/ OnSegment(l[1], l[2], m[2])
    \/ OnSegment(m[1], m[2], l[1]) \/ OnSegment(m[1], m[2], l[2])

\* A simple polygon: distinct vertices, edges that meet only at the vertex
\* two neighbours share.
Simple(points) ==
    LET n  == Len(points)
        ls == exact_segments(points)
    IN  /\ n >= 3
        /\ \A i, j \in 1..n : i < j => points[i] # points[j]
        /\ \A i, j \in 1..n : i < j =>
             IF j = i + 1 \/ (i = 1 /\ j = n)
             THEN LET a == IF j = i + 1 THEN ls[i] ELSE ls[j]
                      b == IF j = i + 1 THEN ls[j] ELSE ls[i]
                  IN  ~OnSegment(a[1], a[2], b[2]) /\ ~OnSegment(b[1], b[2], a[1])
             ELSE ~Touch(ls[i], ls[j])

GridPoints == (0..GridMax) \X (0..GridMax)

\* The simple polygons of 3..MaxVerts vertices on the grid, every start
\* vertex and both windings.
GridPolygons ==
    UNION {{points \in [1..n -> GridPoints] : Simple(points)} : n \in 3..MaxVerts}

Translate(points, dx, dy) ==
    [i \in 1..Len(points) |-> <<points[i][1] + dx, points[i][2] + dy>>]

Rotations(points) == {Shift(points, n) : n \in 0..(Len(points) - 1)}

BothWindings(S) == S \cup {Reverse(points) : points \in S}

\* The square around the grid moved by (1, 1), for polygons used as holes.
Frame == <<<<0, 0>>, <<0, GridMax + 2>>, <<GridMax + 2, GridMax + 2>>, <<GridMax + 2, 0>>>>

\* tests/test_decompose.py, test_complex.
Staircase ==
    <<<<0, 0>>, <<0, 7>>, <<4, 7>>, <<4, 5>>, <<2, 5>>,
      <<2, 4>>, <<4, 4>>, <<4, 2>>, <<2, 2>>, <<2, 0>>>>

\* tests/test_decompose.py, test_v_counter.
VShape == <<<<2, 0>>, <<0, 4>>, <<1, 4>>, <<2, 1>>, <<3, 4>>, <<4, 4>>>>

\* tests/test_decompose.py, test_square.
UnitSquare == <<<<0, 0>>, <<0, 1>>, <<1, 1>>, <<1, 0>>>>

\* A polygon with a vertex that is a local minimum in Y below its two
\* neighbours and not the lowest vertex.
MShape == <<<<0, 0>>, <<0, 3>>, <<1, 1>>, <<2, 3>>, <<2, 0>>>>

\* tests/test_decompose.py, test_complex: Point(p.y, p.x) for p in f.points.
Transposed(points) == [i \in 1..Len(points) |-> <<points[i][2], points[i][1]>>]

Fixtures ==
    BothWindings(UNION {Rotations(f) :
        f \in {Staircase, Transposed(Staircase), VShape, UnitSquare, MShape}})

\* The lists of polygons trapezoidal is called with: one polygon, or the
\* frame with one polygon as a hole, in either order.
TrapInputs ==
    {<<points>> : points \in GridPolygons \cup Fixtures}
    \cup {<<Frame, Translate(points, 1, 1)>> : points \in GridPolygons}
    \cup {<<Translate(points, 1, 1), Frame>> : points \in GridPolygons}

\* min_area: None, or an area in the units of the coordinates.
MinAreas == {None, Some(1)}

(***************************************************************************)
(* The fragment / decouple / recreate_polygons / rebuild pipeline          *)
(* (petrify/decompose.py).  Coordinates are integers in units of half a    *)
(* quantum, so that a point may lie off the quantum grid.                  *)
(***************************************************************************)
\* geometry.quantum, in model units.
Quantum == 2

\* Python's round(n / d) for d > 0: to the nearest integer, halves to even.
RoundHalfEven(n, d) ==
    LET q == n \div d
        r == n % d
    IN  IF 2 * r < d THEN q
        ELSE IF 2 * r > d THEN q + 1
        ELSE IF q % 2 = 0 THEN q ELSE q + 1

\* Vector2.snap(grid): round(v / grid) * grid on both coordinates.
snap_point(p, grid) ==
    <<RoundHalfEven(p[1], grid) * grid, RoundHalfEven(p[2], grid) * grid>>

\* snap(l): ExactSegment(l.p1.snap(quantum), l.p2.snap(quantum)).
snap(l) == <<snap_point(l[1], Quantum), snap_point(l[2], Quantum)>>

\* ExactSegment.flipped.
flipped(l) == <<l[2], l[1]>>

\* ExactSegment.v.
SegV(l) == <<l[2][1] - l[1][1], l[2][2] - l[1][2]>>

\* (a - b).magnitude_squared().
magnitude_squared(a, b) == (a[1] - b[1]) * (a[1] - b[1]) + (a[2] - b[2]) * (a[2] - b[2])

\* A comparison that is not not_close's: at least error apart.
not_closer(a, b, error) == magnitude_squared(a, b) >= error * error

\* fragment, not_close(a, b).
not_close(a, b, error) == magnitude_squared(a, b) > error * error

\* fragment, non_overlapping(a, b): the angle between a.v and b.v is neither
\* 0 nor tau / 2.  The segments of the model are parallel to the axes, for
\* which the angle computed from acos is exactly 0, tau / 4 or tau / 2.
non_overlapping(a, b) == SegV(a)[1] * SegV(b)[2] - SegV(a)[2] * SegV(b)[1] # 0

\* P.connect(L).p2, _connect_point2_line2: the point of the segment L nearest
\* to P (u clamped to [0, 1] by ExactSegment._u_in).
connect(P, L) ==
    LET v == SegV(L)
        d == v[1] * v[1] + v[2] * v[2]
        n == (P[1] - L[1][1]) * v[1] + (P[2] - L[1][2]) * v[2]
        u == IF n < 0 THEN 0 ELSE IF n > d THEN d ELSE n
    IN  <<L[1][1] + (u * v[1]) \div d, L[1][2] + (u * v[2]) \div d>>

\* fragment, the body of the loop for one cutee: the pieces appended.
FragmentsOf(segs, ix, error) ==
    LET cutee  == segs[ix]
        others == SubSeq(segs, 1, ix - 1) \o SubSeq(segs, ix + 1, Len(segs))
        ends   == Flatten([i \in 1..Len(others) |-> <<others[i][1], others[i][2]>>])
        lineOf(k) == others[(k + 1) \div 2]
        conn   == {k \in 1..Len(ends) :
                      /\ not_close(ends[k], cutee[1], error)
                      /\ not_close(ends[k], cutee[2], error)
                      /\ non_overlapping(cutee, lineOf(k))}
        hits   == {k \in conn :
                      magnitude_squared(ends[k], connect(ends[k], cutee)) <= error * error}
        intersects == [j \in 1..Cardinality(hits) |->
                         connect(SelectSeq2(ends, hits)[j], cutee)]
        parts  == Values(SortByKey([j \in 1..Len(intersects) |->
                     <<magnitude_squared(cutee[1], intersects[j]), intersects[j]>>]))
        points == <<cutee[1]>> \o parts \o <<cutee[2]>>
        kept   == {j \in 1..(Len(points) - 1) : not_close(points[j], points[j + 1], error)}
    IN  [j \in 1..Cardinality(kept) |->
            LET i == CHOOSE i \in kept : Cardinality({h \in kept : h < i}) = j - 1
            IN  <<points[i], points[i + 1]>>]

\* decouple, counts[k]: the fragments l with snap(l) = k or snap(l.flipped()) = k,
\* each counted once for either.
counts(frags, k) ==
    Cardinality({i \in 1..Len(frags) : snap(frags[i]) = k})
    + Cardinality({i \in 1..Len(frags) : snap(flipped(frags[i])) = k})

\* decouple, the list returned for the fragments frags.
Decoupled(frags) ==
    SelectSeq2(frags, {i \in 1..Len(frags) : counts(frags, snap(frags[i])) = 1})

\* An index that is not by_point: the snapped segments that end at p.
by_point_incoming(index, p) == {l \in index : l[2] = p}

\* recreate_polygons, [l for _, l in by_point[p]] as a set: the snapped
\* segments with an endpoint at p.
by_point(index, p) == {l \in index : l[1] = p \/ l[2] = p}

\* collate_collinear: the points at which the direction changes.  The angle
\* between two axis-parallel edges is above 0.0001 unless they point the same
\* way.
SameDirection(a, b) ==
    /\ SegV(a)[1] * SegV(b)[2] - SegV(a)[2] * SegV(b)[1] = 0
    /\ SegV(a)[1] * SegV(b)[1] + SegV(a)[2] * SegV(b)[2] > 0

collate_collinear(points) ==
    LET n == Len(points)
        priorOf(i) == <<points[IF i = 1 THEN n ELSE i - 1], points[i]>>
        current(i) == <<points[i], points[(i % n) + 1]>>
    IN  SelectSeq2(points, {i \in 1..n : ~SameDirection(priorOf(i), current(i))})

(***************************************************************************)
(* The inputs of the pipeline: rectangles with corners on a lattice of two *)
(* quanta, the second one moved off the lattice by less than a quantum.    *)
(***************************************************************************)
Pitch == 2 * Quantum

\* The lattice has the coordinates 0, Pitch, .., LatticeMax * Pitch.
LatticeMax == 2

\* The second rectangle is moved by 0..MaxJitter units along each axis: by
\* nothing, by half a quantum, by a quantum.
MaxJitter == 2

\* tests/test_decompose.py, rect(a, b).
rect(a, b) == <<a, <<a[1], b[2]>>, b, <<b[1], a[2]>>>>

Lattice == {Pitch * i : i \in 0..LatticeMax}

LatticeRects ==
    {rect(<<x1, y1>>, <<x2, y2>>) :
        <<x1, y1, x2, y2>> \in {q \in Lattice \X Lattice \X Lattice \X Lattice :
                                   q[1] < q[3] /\ q[2] < q[4]}}

FirstRects == {r \in LatticeRects : r[1] = <<0, 0>>}

\* The second rectangle is near the first, or beyond the lattice to its right.
SecondRects ==
    {Translate(r, j[1] + f * (LatticeMax + 1) * Pitch, j[2]) :
        r \in LatticeRects, j \in (0..MaxJitter) \X (0..MaxJitter), f \in {0, 1}}

\* tests/test_decompose.py, TestPolygons.test_multi_frag, on the lattice.
MultiFrag ==
    <<rect(<<0, 0>>, <<5 * Pitch, Pitch>>),
      rect(<<0, Pitch>>, <<Pitch, 2 * Pitch>>),
      rect(<<2 * Pitch, Pitch>>, <<3 * Pitch, 2 * Pitch>>),
      rect(<<4 * Pitch, Pitch>>, <<5 * Pitch, 2 * Pitch>>)>>

\* The lists of polygons: one rectangle, two rectangles of either winding,
\* the four rectangles of test_multi_frag.
PolygonLists ==
    {<<r>> : r \in BothWindings(LatticeRects)}
    \cup (BothWindings(FirstRects) \X BothWindings(SecondRects))
    \cup {MultiFrag}

\* A polygon that simplify collapses to None: two of its three points are
\* the same.
Collapsed == <<<<0, 0>>, <<0, 0>>, <<Pitch, 0>>>>

\* The lists rebuild is called with: those lists, no polygon, the collapsed
\* polygon, and the collapsed polygon with a rectangle.
RebuildLists ==
    PolygonLists
    \cup {<<>>, <<Collapsed>>, <<Collapsed, rect(<<0, 0>>, <<Pitch, Pitch>>)>>}

SegmentsOf(polys) == Flatten([i \in 1..Len(polys) |-> exact_segments(polys[i])])

\* Single segments between points around a lattice point, some of them with
\* both endpoints less than a quantum from it.
Box == ((Pitch - 1)..(Pitch + Quantum)) \X ((Pitch - 1)..(Pitch + Quantum))

LoneSegments == {<<<<a, b>>>> : <<a, b>> \in {ab \in Box \X Box : ab[1] # ab[2]}}

SegmentLists == {SegmentsOf(polys) : polys \in PolygonLists} \cup LoneSegments

\* The segments of a rectangle with some of them turned against the others:
\* one closed loop that is not directed all the way round.
FlipAt(segs, ks) == [i \in 1..Len(segs) |-> IF i \in ks THEN flipped(segs[i]) ELSE segs[i]]

FlippedLoops ==
    {FlipAt(exact_segments(r), ks) :
        r \in BothWindings(FirstRects), ks \in {{1}, {3}, {1, 2}, {2, 4}}}

\* The values of error: the default, geometry.quantum, the pitch, and a
\* value between the two.
Errors == {Quantum, Quantum + 1, Pitch}

VARIABLES
    polygons,    \* trapezoidal: the argument polygons, as lists of points
    min_area,    \* trapezoidal: the argument min_area
    sliced,      \* trapezoidal: the clockwise points and the heap of each Sliced
    levels,      \* trapezoidal: the levels the for loop has not visited yet
    prior,       \* trapezoidal: the level visited last
    active,      \* trapezoidal: the pairs of walls crossing the current band
    trapezoids,  \* trapezoidal: the quadrilaterals appended so far, with band
    result,      \* trapezoidal: the polygons returned
    tpc          \* trapezoidal: "call", "sweep", "filter", "done", "raised"

trapVars == <<polygons, min_area, sliced, levels, prior, active, trapezoids, result, tpc>>

VARIABLES
    call,        \* the function called: "fragment", "decouple", "recreate_polygons", "rebuild"
    ppc,         \* where the call stands
    exc,         \* the exception the call raised, "" if none
    returned,    \* the value the call returned
    simple,      \* rebuild: the argument polygons; recreate_polygons: the
                 \* polygons whose segments are the argument, if any
    f_segments,  \* fragment: the argument segments
    f_error,     \* fragment: the argument error
    f_ix,        \* fragment: the index of the next cutee, from 1
    f_fragments, \* fragment: the pieces appended so far, one list per cutee
    d_valid,     \* decouple: the list returned
    r_segments,  \* recreate_polygons: the argument segments
    r_index,     \* recreate_polygons: the snapped segments indexed by by_point
    r_valid,     \* recreate_polygons: valid
    r_size,      \* recreate_polygons: size
    r_polygons,  \* recreate_polygons: polygons
    r_polygon,   \* recreate_polygons: polygon, the walk under way
    r_l,         \* recreate_polygons: l, the segment walked last
    r_p2,        \* recreate_polygons: p2
    r_first      \* recreate_polygons: first

pipeVars == <<call, ppc, exc, returned, simple, f_segments, f_error, f_ix, f_fragments,
              d_valid, r_segments, r_index, r_valid, r_size, r_polygons, r_polygon,
              r_l, r_p2, r_first>>

VARIABLES
    o_call,      \* the method called: "Polygon2.offset", "ComplexPolygon2.offset"
    o_self,      \* offset: the polygon or the complex polygon it is called on
    o_amount,    \* offset: the argument amount, in units of 1 / OffsetScale
    o_stack,     \* offset: the frames of the calls under way, innermost last
    o_ret,       \* offset: the value the innermost call that ended returned
    o_result,    \* offset: the value returned to the caller
    opc          \* offset: "call", "done", "raised", "idle"

offVars == <<o_call, o_self, o_amount, o_stack, o_ret, o_result, opc>>

VARIABLES
    s_arg,       \* solve_matrix: the matrix as the caller built it
    s_A,         \* solve_matrix: the caller's list A, which the function works on
    s_i,         \* solve_matrix: i of the loop under way
    s_x,         \* solve_matrix: x
    s_result,    \* solve_matrix: the value returned
    spc          \* solve_matrix: "for i", "for i back", "done", "raised", "idle"

solveVars == <<s_arg, s_A, s_i, s_x, s_result, spc>>

VARIABLES
    c_polygon,   \* Polygon2.contains: self.points
    c_p,         \* Polygon2.contains: the argument p
    c_result,    \* Polygon2.contains: the value returned
    cpc          \* Polygon2.contains: "call", "done", "idle"

containsVars == <<c_polygon, c_p, c_result, cpc>>

VARIABLES
    fr_a,        \* frange: the argument a
    fr_b,        \* frange: the argument b
    fr_step,     \* frange: the argument step
    fr_inclusive,\* frange: the argument inclusive
    fr_count,    \* frange: count
    fr_ix,       \* frange: ix of the loop
    fr_yielded,  \* frange: the values yielded so far
    frpc         \* frange: "call", "for ix", "inclusive", "done", "idle"

frangeVars == <<fr_a, fr_b, fr_step, fr_inclusive, fr_count, fr_ix, fr_yielded, frpc>>

VARIABLES
    b_scanlines, \* batch_scanlines: the argument, a list of levels of lines
    b_level,     \* batch_scanlines: the index of the next level, from 1
    b_final,     \* batch_scanlines: final_shapes
    b_current,   \* batch_scanlines: current_shapes
    b_result,    \* batch_scanlines: the value returned
    bpc          \* batch_scanlines: "for level_lines", "done", "raised", "idle"

batchVars == <<b_scanlines, b_level, b_final, b_current, b_result, bpc>>

\* nonlocal_offset: its arguments, its locals all_rays and offsets, the value
\* it returns or the exception that leaves it, and where it stands.
VARIABLES
    n_complex,
    n_amount,
    n_all_rays,
    n_offsets,
    n_result,
    n_exc,
    npc

nonlocalVars == <<n_complex, n_amount, n_all_rays, n_offsets, n_result, n_exc, npc>>

\* Cut.time: the commands the cut yields, the index of the next one, its
\* locals state and dt, and where it stands.
VARIABLES
    m_commands,  \* Cut.time: list(self.commands()), the parents left out
    m_ix,        \* Cut.time: the index of the next command, from 1
    m_state,     \* Cut.time: state
    m_dt,        \* Cut.time: dt, as the list of its terms <<d squared, fr>>
    mpc          \* Cut.time: "for", "done", "raised", "idle"

motionVars == <<m_commands, m_ix, m_state, m_dt, mpc>>

auxVars == <<solveVars, containsVars, frangeVars, batchVars, nonlocalVars, motionVars>>

vars == <<trapVars, pipeVars, offVars, auxVars>>

SolveIdle ==
    /\ s_arg = <<>> /\ s_A = <<>> /\ s_i = 0 /\ s_x = <<>> /\ s_result = <<>>
    /\ spc = "idle"

ContainsIdle == c_polygon = <<>> /\ c_p = <<>> /\ c_result = FALSE /\ cpc = "idle"

FrangeIdle ==
    /\ fr_a = 0 /\ fr_b = 0 /\ fr_step = 0 /\ fr_inclusive = FALSE /\ fr_count = 0
    /\ fr_ix = 0 /\ fr_yielded = <<>> /\ frpc = "idle"

BatchIdle ==
    /\ b_scanlines = <<>> /\ b_level = 0 /\ b_final = <<>> /\ b_current = <<>>
    /\ b_result = <<>> /\ bpc = "idle"

NonlocalIdle ==
    /\ n_complex = <<>> /\ n_amount = <<>> /\ n_all_rays = <<>> /\ n_offsets = <<>>
    /\ n_result = <<>> /\ n_exc = "" /\ npc = "idle"

MotionIdle ==
    /\ m_commands = <<>> /\ m_ix = 0 /\ m_state = <<>> /\ m_dt = <<>> /\ mpc = "idle"

AuxIdle ==
    SolveIdle /\ ContainsIdle /\ FrangeIdle /\ BatchIdle /\ NonlocalIdle /\ MotionIdle

OffIdle ==
    /\ o_call = "" /\ o_self = <<>> /\ o_amount = 0 /\ o_stack = <<>>
    /\ o_ret = None /\ o_result = None /\ opc = "idle"

PipeIdle ==
    /\ call = "" /\ ppc = "idle" /\ exc = "" /\ returned = <<>> /\ simple = <<>>
    /\ f_segments = <<>> /\ f_error = 0 /\ f_ix = 0 /\ f_fragments = <<>>
    /\ d_valid = <<>> /\ r_segments = <<>> /\ r_index = {} /\ r_valid = {}
    /\ r_size = 0 /\ r_polygons = <<>> /\ r_polygon = <<>> /\ r_l = None
    /\ r_p2 = None /\ r_first = None

TrapIdle ==
    /\ polygons = <<>> /\ min_area = None /\ sliced = <<>> /\ levels = <<>>
    /\ prior = None /\ active = <<>> /\ trapezoids = <<>> /\ result = <<>>
    /\ tpc = "idle"

TrapInit ==
    /\ polygons \in TrapInputs
    /\ min_area \in MinAreas
    /\ sliced = <<>> /\ levels = <<>> /\ prior = None /\ active = <<>>
    /\ trapezoids = <<>> /\ result = <<>>
    /\ tpc = "call"
    /\ PipeIdle
    /\ OffIdle
    /\ AuxIdle

\* trapezoidal, up to the for loop: the polygons made clockwise, one Sliced
\* per polygon, the sorted set of the Y of all points.
TrapSetup ==
    /\ tpc = "call"
    /\ sliced' = [i \in 1..Len(polygons) |->
                    [points |-> to_clockwise(polygons[i]),
                     heap   |-> SlicedHeap(to_clockwise(polygons[i]))]]
    /\ levels' = SortedSet({polygons[i][j][2] :
                     <<i, j>> \in {<<i, j>> \in (1..Len(polygons)) \X (1..MaxCoord * 4) :
                                      j <= Len(polygons[i])}})
    /\ tpc' = "sweep"
    /\ UNCHANGED <<polygons, min_area, prior, active, trapezoids, result, pipeVars, offVars, auxVars>>

ClockwisePolygons == [i \in 1..Len(sliced) |-> sliced[i].points]

\* One iteration of "for level in levels".
TrapLevel ==
    /\ tpc = "sweep" /\ levels # <<>>
    /\ LET level  == Head(levels)
           deps   == Flatten([i \in 1..Len(sliced) |-> departures(sliced[i].heap, level)])
           pairs  == [i \in 1..Len(active) |->
                        IF active[i][2] = None THEN active[i]
                        ELSE SortedPair(ClockwisePolygons, active[i])]
           bad    == \E i \in 1..Len(pairs) : BadPair(pairs[i], prior[1], level)
           next_active ==
               Flatten([i \in 1..Len(pairs) |-> Continuing(pairs[i], level)])
               \o [i \in 1..Len(deps) |-> <<yl(deps[i], level)[1], deps[i]>>]
       IN  IF bad
           THEN /\ tpc' = "raised"
                /\ UNCHANGED <<sliced, levels, prior, active, trapezoids>>
           ELSE /\ trapezoids' = trapezoids \o
                       [i \in 1..Len(pairs) |-> Trapezoid(pairs[i], prior[1], level)]
                /\ active' = grouper(Values(SortByKey(next_active)))
                /\ sliced' = [i \in 1..Len(sliced) |->
                                [sliced[i] EXCEPT !.heap = HeapAfter(@, level)]]
                /\ prior' = Some(level)
                /\ levels' = Tail(levels)
                /\ tpc' = IF Tail(levels) = <<>> THEN "filter" ELSE "sweep"
    /\ UNCHANGED <<polygons, min_area, result, pipeVars, offVars, auxVars>>

\* trapezoidal, after the loop: the min_area filter, simplify, and the
\* polygons of more than 2 points.
TrapFilter ==
    /\ tpc = "filter"
    /\ LET big == {i \in 1..Len(trapezoids) :
                      min_area = None \/ trap_area(trapezoids[i]) > min_area[1] * 2 * Scale}
           simplified == [i \in 1..Cardinality(big) |-> simplify(SelectSeq2(trapezoids, big)[i])]
           whole == {i \in 1..Len(simplified) : simplified[i] # None}
       IN  result' = SelectSeq2(simplified, whole)
    /\ tpc' = "done"
    /\ UNCHANGED <<polygons, min_area, sliced, levels, prior, active, trapezoids, pipeVars, offVars, auxVars>>

TrapNext == TrapSetup \/ TrapLevel \/ TrapFilter

TrapSpec == TrapInit /\ [][TrapNext]_vars

(***************************************************************************)
(* fragment, decouple, recreate_polygons and rebuild as one state machine: *)
(* a call of any of the four, followed to its return or its exception.     *)
(***************************************************************************)
PipeInit ==
    /\ TrapIdle
    /\ OffIdle
    /\ AuxIdle
    /\ exc = "" /\ returned = <<>> /\ f_ix = 1 /\ f_fragments = <<>> /\ d_valid = <<>>
    /\ r_index = {} /\ r_valid = {} /\ r_size = 0 /\ r_polygons = <<>>
    /\ r_polygon = <<>> /\ r_l = None /\ r_p2 = None /\ r_first = None
    /\ \/ /\ call = "fragment" /\ ppc = "fragment"
          /\ f_segments \in SegmentLists /\ f_error \in Errors
          /\ simple = <<>> /\ r_segments = <<>>
       \/ /\ call = "decouple" /\ ppc = "fragment"
          /\ f_segments \in SegmentLists /\ f_error = Quantum
          /\ simple = <<>> /\ r_segments = <<>>
       \/ /\ call = "recreate_polygons" /\ ppc = "recreate_polygons"
          /\ \/ simple \in PolygonLists /\ r_segments = SegmentsOf(simple)
             \/ simple = <<>> /\ r_segments \in LoneSegments \cup FlippedLoops
          /\ f_segments = <<>> /\ f_error = Quantum
       \/ /\ call = "rebuild" /\ ppc = "rebuild"
          /\ simple \in RebuildLists
          /\ r_segments = <<>> /\ f_segments = <<>> /\ f_error = Quantum

\* rebuild, up to the call of decouple: the polygons that simplify to a
\* polygon, and their segments.
RebuildSegments ==
    /\ ppc = "rebuild"
    /\ LET valid == SelectSeq2(simple, {i \in 1..Len(simple) : simplify(simple[i]) # None})
       IN  f_segments' = SegmentsOf([i \in 1..Len(valid) |-> simplify(valid[i])])
    /\ ppc' = "fragment"
    /\ UNCHANGED <<trapVars, offVars, auxVars, call, exc, returned, simple, f_error, f_ix, f_fragments,
                   d_valid, r_segments, r_index, r_valid, r_size, r_polygons,
                   r_polygon, r_l, r_p2, r_first>>

\* fragment: one iteration of "for ix, cutee in enumerate(segments)".
FragmentCutee ==
    /\ ppc = "fragment" /\ f_ix <= Len(f_segments)
    /\ f_fragments' = Append(f_fragments, FragmentsOf(f_segments, f_ix, f_error))
    /\ f_ix' = f_ix + 1
    /\ UNCHANGED <<trapVars, offVars, auxVars, call, ppc, exc, returned, simple, f_segments, f_error,
                   d_valid, r_segments, r_index, r_valid, r_size, r_polygons,
                   r_polygon, r_l, r_p2, r_first>>

\* fragment: "return fragments", to the caller or to decouple.
FragmentReturn ==
    /\ ppc = "fragment" /\ f_ix > Len(f_segments)
    /\ IF call = "fragment"
       THEN ppc' = "done" /\ returned' = Flatten(f_fragments)
       ELSE ppc' = "decouple" /\ UNCHANGED returned
    /\ UNCHANGED <<trapVars, offVars, auxVars, call, exc, simple, f_segments, f_error, f_ix, f_fragments,
                   d_valid, r_segments, r_index, r_valid, r_size, r_polygons,
                   r_polygon, r_l, r_p2, r_first>>

\* decouple, after fragment: the counts and the list returned, to the caller
\* or to recreate_polygons.
Decouple ==
    /\ ppc = "decouple"
    /\ d_valid' = Decoupled(Flatten(f_fragments))
    /\ IF call = "decouple"
       THEN ppc' = "done" /\ returned' = d_valid' /\ UNCHANGED r_segments
       ELSE ppc' = "recreate_polygons" /\ r_segments' = d_valid' /\ UNCHANGED returned
    /\ UNCHANGED <<trapVars, offVars, auxVars, call, exc, simple, f_segments, f_error, f_ix, f_fragments,
                   r_index, r_valid, r_size, r_polygons, r_polygon, r_l, r_p2, r_first>>

\* recreate_polygons, up to the loop: segments[0] fails on an empty list,
\* valid is the set of the snapped segments.
RecreateEnter ==
    /\ ppc = "recreate_polygons"
    /\ IF r_segments = <<>>
       THEN /\ ppc' = "raised" /\ exc' = "IndexError"
            /\ UNCHANGED <<r_index, r_valid, r_size>>
       ELSE /\ r_valid' = {snap(r_segments[i]) : i \in 1..Len(r_segments)}
            /\ r_index' = r_valid'
            /\ r_size' = Cardinality(r_valid')
            /\ ppc' = "while valid"
            /\ exc' = exc
    /\ UNCHANGED <<trapVars, offVars, auxVars, call, returned, simple, f_segments, f_error, f_ix,
                   f_fragments, d_valid, r_segments, r_polygons, r_polygon, r_l,
                   r_p2, r_first>>

\* A test that is not the code's: the walk is closed after every fragment.
closes_always(p2, first) == TRUE

\* "if p2 == first": the walk is back at its first point.
closes(p2, first) == p2 = first

\* A removal that is not the code's: the segment stays in the set.
Unremoved(valid, l) == valid

\* "valid.remove(l)" for a segment of the set.
Removed(valid, l) == valid \ {l}

\* recreate_polygons: the start of a walk, l = next(iter(valid)): any
\* segment of the set.
RecreateStart ==
    /\ ppc = "while valid" /\ r_valid # {}
    /\ \E l \in r_valid :
        /\ r_l' = l
        /\ r_valid' = Removed(r_valid, l)
        /\ r_first' = l[1]
        /\ r_p2' = l[2]
        /\ r_polygon' = <<l[1]>>
    /\ ppc' = "while p2"
    /\ UNCHANGED <<trapVars, offVars, auxVars, call, exc, returned, simple, f_segments, f_error, f_ix,
                   f_fragments, d_valid, r_segments, r_index, r_size, r_polygons>>

\* recreate_polygons: one iteration of "while p2", and what follows it when
\* it ends the walk (polygons.append, the assert on size).
RecreateStep ==
    /\ ppc = "while p2"
    /\ LET others == by_point(r_index, r_p2) \ {r_l}
           l      == CHOOSE l \in others : TRUE
       IN  IF Cardinality(others) # 1
           THEN /\ ppc' = "raised" /\ exc' = "ValueError"
                /\ r_polygon' = Append(r_polygon, r_p2)
                /\ UNCHANGED <<r_valid, r_l, r_p2, r_polygons, r_size>>
           ELSE IF l \notin r_valid
           THEN /\ ppc' = "raised" /\ exc' = "KeyError"
                /\ r_polygon' = Append(r_polygon, r_p2)
                /\ r_l' = l
                /\ UNCHANGED <<r_valid, r_p2, r_polygons, r_size>>
           ELSE /\ r_l' = l
                /\ r_valid' = Removed(r_valid, l)
                /\ exc' = exc
                /\ IF closes(l[2], r_first)
                   THEN /\ r_polygons' = Append(r_polygons, Append(r_polygon, r_p2))
                        /\ r_polygon' = <<>>
                        /\ r_p2' = None
                        /\ r_size' = Cardinality(r_valid')
                        /\ ppc' = "while valid"
                   ELSE /\ r_polygon' = Append(r_polygon, r_p2)
                        /\ r_p2' = l[2]
                        /\ ppc' = "while p2"
                        /\ UNCHANGED <<r_polygons, r_size>>
    /\ UNCHANGED <<trapVars, offVars, auxVars, call, returned, simple, f_segments, f_error, f_ix,
                   f_fragments, d_valid, r_segments, r_index, r_first>>

\* recreate_polygons: "return polygons", to the caller or to rebuild.
RecreateReturn ==
    /\ ppc = "while valid" /\ r_valid = {}
    /\ IF call = "recreate_polygons"
       THEN ppc' = "done" /\ returned' = r_polygons
       ELSE ppc' = "collate" /\ UNCHANGED returned
    /\ UNCHANGED <<trapVars, offVars, auxVars, call, exc, simple, f_segments, f_error, f_ix, f_fragments,
                   d_valid, r_segments, r_index, r_valid, r_size, r_polygons,
                   r_polygon, r_l, r_p2, r_first>>

\* rebuild: collate_collinear on every polygon, and the return.
RebuildCollate ==
    /\ ppc = "collate"
    /\ returned' = [i \in 1..Len(r_polygons) |-> collate_collinear(r_polygons[i])]
    /\ ppc' = "done"
    /\ UNCHANGED <<trapVars, offVars, auxVars, call, exc, simple, f_segments, f_error, f_ix, f_fragments,
                   d_valid, r_segments, r_index, r_valid, r_size, r_polygons,
                   r_polygon, r_l, r_p2, r_first>>

PipeNext ==
    \/ RebuildSegments \/ FragmentCutee \/ FragmentReturn \/ Decouple
    \/ RecreateEnter \/ RecreateStart \/ RecreateStep \/ RecreateReturn
    \/ RebuildCollate

PipeSpec == PipeInit /\ [][PipeNext]_vars

\* The calls of recreate_polygons alone, run to their end: a step that can
\* be taken is taken.
RecreateInit == PipeInit /\ call = "recreate_polygons"

RecreateNext == RecreateEnter \/ RecreateStart \/ RecreateStep \/ RecreateReturn

RecreateFair == RecreateInit /\ [][RecreateNext]_vars /\ WF_vars(RecreateNext)

(***************************************************************************)
(* Numbers of the linear solver and of the offset engine.  The code works  *)
(* on floats; the model keeps every number exactly, as a fraction <<n, d>> *)
(* in lowest terms with d > 0.                                             *)
(***************************************************************************)
Rat(n, d) ==
    LET g == Gcd(Abs(n), Abs(d))
        s == IF d < 0 THEN -1 ELSE 1
    IN  <<(s * n) \div g, (s * d) \div g>>

R(n) == <<n, 1>>

RAdd(a, b) == Rat(a[1] * b[2] + b[1] * a[2], a[2] * b[2])

RNeg(a) == <<-a[1], a[2]>>

RSub(a, b) == RAdd(a, RNeg(b))

RMul(a, b) == Rat(a[1] * b[1], a[2] * b[2])

\* a / b for b other than zero.
RDiv(a, b) == Rat(a[1] * b[2], a[2] * b[1])

RAbs(a) == <<Abs(a[1]), a[2]>>

RLt(a, b) == a[1] * b[2] < b[1] * a[2]

RLe(a, b) == a[1] * b[2] <= b[1] * a[2]

RZero(a) == a[1] = 0

\* The exception of a division by zero, where a value is expected.
ZeroDivisionError == <<>>

(***************************************************************************)
(* petrify/solver.py, solve_matrix.  A is a list of n rows of n + 1        *)
(* numbers; rows and columns are counted from 1 here.                      *)
(***************************************************************************)
\* A search that is not solve_matrix's: the row is never exchanged.
max_row_fixed(A, i) == i

\* The first loop's search: the first row from i on whose cell in column i
\* is largest in absolute value.
max_row(A, i) ==
    CHOOSE r \in i..Len(A) :
        /\ \A k \in i..Len(A) : RLe(RAbs(A[k][i]), RAbs(A[r][i]))
        /\ \A k \in i..(r - 1) : RLt(RAbs(A[k][i]), RAbs(A[r][i]))

\* The first loop's exchange of rows max_row and i, from column i on.
Exchanged(A, i) ==
    LET m == max_row(A, i)
    IN  [r \in 1..Len(A) |-> [c \in 1..(Len(A) + 1) |->
            IF c < i THEN A[r][c]
            ELSE IF r = i THEN A[m][c]
            ELSE IF r = m THEN A[i][c]
            ELSE A[r][c]]]

\* "c = -A[k][i]/A[i][i]" divides by zero: there is a row below i and the
\* pivot is zero.
EliminationRaises(A, i) == i < Len(A) /\ RZero(A[i][i])

\* The first loop's elimination of column i from the rows below i.
Eliminated(A, i) ==
    [r \in 1..Len(A) |-> [c \in 1..(Len(A) + 1) |->
        IF r <= i \/ c < i THEN A[r][c]
        ELSE IF c = i THEN R(0)
        ELSE RAdd(A[r][c], RMul(RNeg(RDiv(A[r][i], A[i][i])), A[i][c]))]]

\* The second loop for row i: x[i], and the last column of the rows above.
Substituted(A, x, i) ==
    LET xi == RDiv(A[i][Len(A) + 1], A[i][i])
    IN  [A |-> [r \in 1..Len(A) |-> [c \in 1..(Len(A) + 1) |->
                   IF r < i /\ c = Len(A) + 1
                   THEN RSub(A[r][c], RMul(A[r][i], xi))
                   ELSE A[r][c]]],
         x |-> [x EXCEPT ![i] = xi]]

\* The matrix after the first loop from iteration i on, or ZeroDivisionError.
RECURSIVE EliminatedFrom(_, _)
EliminatedFrom(A, i) ==
    IF i > Len(A) THEN A
    ELSE IF EliminationRaises(Exchanged(A, i), i) THEN ZeroDivisionError
    ELSE EliminatedFrom(Eliminated(Exchanged(A, i), i), i + 1)

\* x after the second loop from row i down, or ZeroDivisionError.
RECURSIVE SubstitutedFrom(_, _, _)
SubstitutedFrom(A, x, i) ==
    IF i < 1 THEN x
    ELSE IF RZero(A[i][i]) THEN ZeroDivisionError
    ELSE LET s == Substituted(A, x, i) IN SubstitutedFrom(s.A, s.x, i - 1)

\* The value solve_matrix returns, or ZeroDivisionError.
solve_matrix(A) ==
    LET U == EliminatedFrom(A, 1)
    IN  IF U = ZeroDivisionError THEN ZeroDivisionError
        ELSE SubstitutedFrom(U, [i \in 1..Len(A) |-> R(0)], Len(A))

\* The entries of the generated 2 x 3 matrices are -SolveMax..SolveMax.
SolveMax == 2

\* A matrix of integers as a matrix of fractions.
RMatrix(M) == [r \in 1..Len(M) |-> [c \in 1..Len(M[r]) |-> R(M[r][c])]]

\* tests/test_solver.py, test_simple.
TestMatrix == << <<0, 1, -1, -2>>, <<1, 1, 1, 13>>, <<1, -2, 0, 3>> >>

\* Every 2 x 3 matrix with small entries, every 3 x 4 matrix of zeros and
\* ones, and the matrix of the test.
SolveInputs ==
    {RMatrix(<< <<q[1], q[2], q[3]>>, <<q[4], q[5], q[6]>> >>) :
        q \in [1..6 -> (-SolveMax)..SolveMax]}
    \cup {RMatrix([r \in 1..3 |-> [c \in 1..4 |-> q[4 * (r - 1) + c]]]) :
            q \in [1..12 -> 0..1]}
    \cup {RMatrix(TestMatrix)}

SolveInit ==
    /\ TrapIdle /\ PipeIdle /\ OffIdle /\ MotionIdle /\ ContainsIdle /\ FrangeIdle /\ BatchIdle
    /\ NonlocalIdle
    /\ s_arg \in SolveInputs
    /\ s_A = s_arg
    /\ s_i = 1 /\ s_x = <<>> /\ s_result = <<>>
    /\ spc = "for i"

\* solve_matrix: one iteration of "for i in range(0, n)"; after the last one,
\* "x = [0 for i in range(n)]".
SolvePivot ==
    /\ spc = "for i"
    /\ LET E == Exchanged(s_A, s_i)
       IN  IF EliminationRaises(E, s_i)
           THEN /\ s_A' = E /\ spc' = "raised"
                /\ UNCHANGED <<s_i, s_x>>
           ELSE /\ s_A' = Eliminated(E, s_i)
                /\ IF s_i < Len(s_A)
                   THEN s_i' = s_i + 1 /\ UNCHANGED <<s_x, spc>>
                   ELSE /\ s_i' = Len(s_A)
                        /\ s_x' = [i \in 1..Len(s_A) |-> R(0)]
                        /\ spc' = "for i back"
    /\ UNCHANGED <<trapVars, pipeVars, offVars, motionVars, containsVars, frangeVars, batchVars,
                   nonlocalVars,
                   s_arg, s_result>>

\* solve_matrix: one iteration of "for i in range(n-1, -1, -1)"; after the
\* last one, "return x".
SolveBack ==
    /\ spc = "for i back"
    /\ IF RZero(s_A[s_i][s_i])
       THEN spc' = "raised" /\ UNCHANGED <<s_A, s_i, s_x, s_result>>
       ELSE LET t == Substituted(s_A, s_x, s_i)
            IN  /\ s_A' = t.A /\ s_x' = t.x
                /\ IF s_i > 1
                   THEN s_i' = s_i - 1 /\ UNCHANGED <<s_result, spc>>
                   ELSE s_result' = t.x /\ spc' = "done" /\ UNCHANGED s_i
    /\ UNCHANGED <<trapVars, pipeVars, offVars, motionVars, containsVars, frangeVars, batchVars,
                   nonlocalVars,
                   s_arg>>

SolveNext == SolvePivot \/ SolveBack

SolveSpec == SolveInit /\ [][SolveNext]_vars

(***************************************************************************)
(* Polygon2.offset and ComplexPolygon2.offset as one state machine: a call *)
(* of either, followed through the frames it opens to its return or its    *)
(* exception.  engines.offset is pyoffset, the binding engines/__init__.py *)
(* makes first and keeps when pyclipper cannot be imported.  Lengths are   *)
(* integers in tenths: 1 stands for 0.1.                                   *)
(***************************************************************************)
\* The frames the interpreter allows before it raises RecursionError.
RecursionLimit == 12

\* The largest side of an input rectangle, in whole units.
OffsetMax == 2

Tenths(n) == 10 * n

\* ComplexPolygon(interior=..., exterior=...): both lists are kept as given.
ComplexPolygon(interior, exterior) == [interior |-> interior, exterior |-> exterior]

\* A frame: the function, self (or the engine's argument polygon), amount,
\* and for pyoffset.offset the list "off" is building, the values p.offset
\* has returned for it so far, and the finished value of the argument
\* interior.
OffsetFrame(fn, self, amount) ==
    [fn |-> fn, self |-> self, amount |-> amount,
     off |-> "interior", polygons |-> <<>>, interior |-> <<>>]

\* The rectangle (x, y)-(x + w, y + h) in the vertex order of the docstrings.
OffsetRect(x, y, w, h) ==
    << <<Tenths(x), Tenths(y)>>, <<Tenths(x), Tenths(y + h)>>,
       <<Tenths(x + w), Tenths(y + h)>>, <<Tenths(x + w), Tenths(y)>> >>

OffsetPolygons == {OffsetRect(0, 0, w, h) : w \in 1..OffsetMax, h \in 1..OffsetMax}

\* ComplexPolygon([]); a large and a small square side by side, as in
\* test_complex_offset_cleanup; a square with a square hole.
OffsetComplexes ==
    {ComplexPolygon(<<>>, <<>>),
     ComplexPolygon(<<>>, <<OffsetRect(0, 0, 10, 10), OffsetRect(1, -2, 1, 1)>>),
     ComplexPolygon(<<OffsetRect(1, 1, 1, 1)>>, <<OffsetRect(0, 0, 3, 3)>>)}

\* -10, -2, -0.1 and 0.1.
OffsetAmounts == {-Tenths(10), -Tenths(2), -1, 1}

OffsetInit ==
    /\ TrapIdle
    /\ PipeIdle
    /\ AuxIdle
    /\ \/ o_call = "Polygon2.offset" /\ o_self \in OffsetPolygons
       \/ o_call = "ComplexPolygon2.offset" /\ o_self \in OffsetComplexes
    /\ o_amount \in OffsetAmounts
    /\ o_stack = <<OffsetFrame(o_call, o_self, o_amount)>>
    /\ o_ret = None /\ o_result = None
    /\ opc = "call"

OffsetTop == o_stack[Len(o_stack)]

\* A call from the innermost frame: one more frame, or RecursionError, which
\* no frame of the chain catches.
OffsetCalls(frame) ==
    /\ IF Len(o_stack) >= RecursionLimit
       THEN opc' = "raised" /\ o_stack' = <<>>
       ELSE opc' = opc /\ o_stack' = Append(o_stack, frame)
    /\ UNCHANGED <<o_ret, o_result>>

\* A return from the innermost frame: to the frame below, or to the caller.
OffsetReturns(value) ==
    /\ o_stack' = SubSeq(o_stack, 1, Len(o_stack) - 1)
    /\ IF Len(o_stack) = 1
       THEN opc' = "done" /\ o_result' = Some(value) /\ o_ret' = None
       ELSE opc' = opc /\ o_result' = o_result /\ o_ret' = Some(value)

\* Polygon2.offset, up to its call:
\* ComplexPolygon(exterior=[self], interior=[]).offset(amount).
Polygon2Offset ==
    /\ opc = "call" /\ o_ret = None /\ OffsetTop.fn = "Polygon2.offset"
    /\ OffsetCalls(OffsetFrame("ComplexPolygon2.offset",
                               ComplexPolygon(<<>>, <<OffsetTop.self>>),
                               OffsetTop.amount))
    /\ UNCHANGED <<trapVars, pipeVars, auxVars, o_call, o_self, o_amount>>

\* ComplexPolygon2.offset, up to its call: engines.offset.offset(self, amount).
ComplexPolygon2Offset ==
    /\ opc = "call" /\ o_ret = None /\ OffsetTop.fn = "ComplexPolygon2.offset"
    /\ OffsetCalls(OffsetFrame("pyoffset.offset", OffsetTop.self, OffsetTop.amount))
    /\ UNCHANGED <<trapVars, pipeVars, auxVars, o_call, o_self, o_amount>>

\* "[p for p in polygons if p is not None]"
NotNone(ps) == SelectSeq2(ps, {i \in 1..Len(ps) : ps[i] # None})

\* pyoffset.offset, up to its next call of p.offset or to its return:
\* off(polygon.interior, -amount) is evaluated first, then
\* off(polygon.exterior, amount).
PyOffset ==
    /\ opc = "call" /\ o_ret = None /\ OffsetTop.fn = "pyoffset.offset"
    /\ LET f == OffsetTop
           interior == IF f.off = "interior" THEN NotNone(f.polygons) ELSE f.interior
           next == IF f.off = "interior" /\ Len(f.polygons) < Len(f.self.interior)
                   THEN <<"interior", f.self.interior[Len(f.polygons) + 1], -f.amount>>
                   ELSE IF f.off = "interior" /\ f.self.exterior # <<>>
                   THEN <<"exterior", f.self.exterior[1], f.amount>>
                   ELSE IF f.off = "exterior" /\ Len(f.polygons) < Len(f.self.exterior)
                   THEN <<"exterior", f.self.exterior[Len(f.polygons) + 1], f.amount>>
                   ELSE None
           exterior == IF f.off = "interior" THEN <<>> ELSE NotNone(f.polygons)
       IN  IF next = None
           THEN OffsetReturns(ComplexPolygon(interior, exterior))
           ELSE IF Len(o_stack) >= RecursionLimit
           THEN OffsetCalls(f)
           ELSE /\ o_stack' = Append(
                       [o_stack EXCEPT ![Len(o_stack)] =
                           [f EXCEPT !.off = next[1], !.interior = interior,
                                     !.polygons = IF next[1] = f.off THEN f.polygons
                                                  ELSE <<>>]],
                       OffsetFrame("Polygon2.offset", next[2], next[3]))
                /\ UNCHANGED <<o_ret, o_result, opc>>
    /\ UNCHANGED <<trapVars, pipeVars, auxVars, o_call, o_self, o_amount>>

\* The frame below receives the value of the call it made: Polygon2.offset
\* and ComplexPolygon2.offset return it, pyoffset.offset appends it to the
\* list off is building.
OffsetReceive ==
    /\ opc = "call" /\ o_ret # None
    /\ IF OffsetTop.fn = "pyoffset.offset"
       THEN /\ o_stack' = [o_stack EXCEPT ![Len(o_stack)].polygons =
                              Append(OffsetTop.polygons, o_ret[1])]
            /\ o_ret' = None
            /\ UNCHANGED <<o_result, opc>>
       ELSE OffsetReturns(o_ret[1])
    /\ UNCHANGED <<trapVars, pipeVars, auxVars, o_call, o_self, o_amount>>

OffsetNext == Polygon2Offset \/ ComplexPolygon2Offset \/ PyOffset \/ OffsetReceive

OffsetSpec == OffsetInit /\ [][OffsetNext]_vars

(***************************************************************************)
(* Points, vectors and lines of petrify/plane on exact numbers.  A point   *)
(* or vector is <<x, y>>; a line, ray or segment is its class, its point p *)
(* and its vector v, as Line2 keeps them.  Where the code names a value    *)
(* and uses it several times, the value is the argument of an operator     *)
(* that holds the rest of the function.                                    *)
(***************************************************************************)
Point(x, y) == <<R(x), R(y)>>

\* A polygon of integer points as a polygon of exact points.
RPolygon(points) == [i \in 1..Len(points) |-> Point(points[i][1], points[i][2])]

VAdd(a, b) == <<RAdd(a[1], b[1]), RAdd(a[2], b[2])>>

VSub(a, b) == <<RSub(a[1], b[1]), RSub(a[2], b[2])>>

VNeg(v) == <<RNeg(v[1]), RNeg(v[2])>>

VMul(v, k) == <<RMul(v[1], k), RMul(v[2], k)>>

v_magnitude_squared(v) == RAdd(RMul(v[1], v[1]), RMul(v[2], v[2]))

\* The root of a whole number that is a square.
ISqrt(n) == CHOOSE r \in 0..n : r * r = n

\* The root of a fraction whose terms are squares.
RSqrt(q) == <<ISqrt(q[1]), ISqrt(q[2])>>

\* "if d: return Vector2(self.x / d, self.y / d)"
DividedBy(v, d) == IF RZero(d) THEN v ELSE <<RDiv(v[1], d), RDiv(v[2], d)>>

\* Vector2.normalized, for the vectors of the model: their lengths are
\* fractions.
normalized(v) == DividedBy(v, RSqrt(v_magnitude_squared(v)))

cross(v) == <<v[2], RNeg(v[1])>>

Line(p1, p2) == [class |-> "Line", p |-> p1, v |-> VSub(p2, p1)]

LineSegment(p1, p2) == [class |-> "LineSegment", p |-> p1, v |-> VSub(p2, p1)]

Ray(p, v) == [class |-> "Ray", p |-> p, v |-> v]

P2(l) == VAdd(l.p, l.v)

\* Line2.__eq__ compares p and v, whatever the classes.
LineEq(a, b) == a.p = b.p /\ a.v = b.v

\* Line2._u_in, Ray2._u_in and LineSegment2._u_in.
u_in(l, u) ==
    IF l.class = "Line" THEN TRUE
    ELSE IF l.class = "Ray" THEN RLe(R(0), u)
    ELSE RLe(R(0), u) /\ RLe(u, R(1))

\* _intersect_line2_line2 from ua and ub on.
IntersectAt(A, B, ua, ub) ==
    IF ~u_in(A, ua) THEN None
    ELSE IF ~u_in(B, ub) THEN None
    ELSE Some(<<RAdd(A.p[1], RMul(ua, A.v[1])), RAdd(A.p[2], RMul(ua, A.v[2]))>>)

\* _intersect_line2_line2 from "if d == 0" on.
IntersectBy(A, B, d, dy, dx) ==
    IF RZero(d) THEN None
    ELSE IntersectAt(A, B,
                     RDiv(RSub(RMul(B.v[1], dy), RMul(B.v[2], dx)), d),
                     RDiv(RSub(RMul(A.v[1], dy), RMul(A.v[2], dx)), d))

\* The point where A and B meet, or None.
intersect_line2_line2(A, B) ==
    IntersectBy(A, B,
                RSub(RMul(B.v[2], A.v[1]), RMul(B.v[1], A.v[2])),
                RSub(A.p[2], B.p[2]),
                RSub(A.p[1], B.p[1]))

\* "if not L._u_in(u): u = max(min(u, 1.0), 0.0)"
Clamped(L, u) ==
    IF u_in(L, u) THEN u
    ELSE IF RLt(u, R(0)) THEN R(0)
    ELSE IF RLt(R(1), u) THEN R(1) ELSE u

\* _connect_point2_line2 from u on.
ConnectAt(P, L, u) ==
    LineSegment(P, <<RAdd(L.p[1], RMul(u, L.v[1])), RAdd(L.p[2], RMul(u, L.v[2]))>>)

\* The segment from P to the point of L nearest to P, for L.v other than
\* zero.
connect_point2_line2(P, L) ==
    ConnectAt(P, L,
              Clamped(L, RDiv(RAdd(RMul(RSub(P[1], L.p[1]), L.v[1]),
                                   RMul(RSub(P[2], L.p[2]), L.v[2])),
                              v_magnitude_squared(L.v))))

\* AbstractPolygon.segments: from every point to the next, the last to the
\* first.
LineSegments(points) ==
    [i \in 1..Len(points) |-> LineSegment(points[i], points[(i % Len(points)) + 1])]

\* AbstractPolygon.index_of: the first index of the point, counted from 1.
index_of(points, point) ==
    CHOOSE i \in 1..Len(points) :
        points[i] = point /\ \A j \in 1..(i - 1) : points[j] # point

\* The sum of a list of fractions.
RECURSIVE RSumSeq(_)
RSumSeq(s) == IF s = <<>> THEN R(0) ELSE RAdd(Head(s), RSumSeq(Tail(s)))

\* Polygon2.clockwise on exact points.
RClockwise(points) ==
    RLt(R(0), RSumSeq([i \in 1..Len(points) |->
        RMul(RSub(points[(i % Len(points)) + 1][1], points[i][1]),
             RAdd(points[(i % Len(points)) + 1][2], points[i][2]))]))

\* Polygon2.contains: p lies on a segment that is not a point.
OnSomeSegment(segs, p) ==
    \E i \in 1..Len(segs) :
        /\ RLt(R(0), v_magnitude_squared(segs[i].v))
        /\ RZero(v_magnitude_squared(connect_point2_line2(p, segs[i]).v))

\* Polygon2.contains: the set of the points where the test ray meets a
\* segment.
Intersects(segs, test) ==
    {intersect_line2_line2(test, segs[i]) : i \in 1..Len(segs)} \ {None}

\* Polygon2.contains.
contains(points, p) ==
    IF OnSomeSegment(LineSegments(points), p) THEN TRUE
    ELSE Cardinality(Intersects(LineSegments(points), Ray(p, <<R(1), R(0)>>))) % 2 = 1

\* Polygon2.inwards, the test of its count: the ray meets the segment l,
\* another one than the edge, at x, and x is not the end of l.
Counted(l, edge, x) == ~LineEq(l, edge) /\ x # None /\ x[1] # P2(l)

\* "(ray if count % 2 == 1 else -ray).v.normalized()"
Facing(ray, count) ==
    IF count % 2 = 1 THEN normalized(ray.v) ELSE normalized(VNeg(ray.v))

\* Polygon2.inwards from "intersections = ..." on.
InwardsAlong(segs, edge, ray) ==
    Facing(ray, Cardinality({i \in 1..Len(segs) :
                    Counted(segs[i], edge, intersect_line2_line2(segs[i], ray))}))

\* Polygon2.inwards: the unit normal of the edge that faces inwards.
inwards(points, edge) ==
    InwardsAlong(LineSegments(points), edge,
                 Ray(VMul(VAdd(edge.p, P2(edge)), <<1, 2>>), cross(edge.v)))

\* ComplexPolygon(polygons), the loop's "simple": the polygon simplified
\* and made clockwise, or None.
Oriented(simplified) ==
    IF simplified = None THEN None
    ELSE IF RClockwise(simplified) THEN simplified ELSE inverted(simplified)

\* ComplexPolygon(polygons), the loop's test: another polygon of the list
\* contains the first point of this one.
InsideAnother(ps, ix, first) ==
    \E j \in 1..Len(ps) : j # ix /\ contains(ps[j], first)

\* ComplexPolygon(polygons) from the oriented polygons on: interior and
\* exterior.
Filed(ps, oriented) ==
    ComplexPolygon(
        SelectSeq2(oriented, {i \in 1..Len(ps) :
            oriented[i] # None /\ InsideAnother(ps, i, oriented[i][1])}),
        SelectSeq2(oriented, {i \in 1..Len(ps) :
            oriented[i] # None /\ ~InsideAnother(ps, i, oriented[i][1])}))

\* ComplexPolygon(polygons).
ComplexPolygonOf(ps) == Filed(ps, [i \in 1..Len(ps) |-> Oriented(simplify(ps[i]))])

(***************************************************************************)
(* petrify/engines/pyoffset.py, from magnitude to nonlocal_offset.  A      *)
(* function that can raise gives Ok(value) or Raises(exception).           *)
(***************************************************************************)
Ok(value) == [exc |-> "", val |-> value]

Raises(exception) == [exc |-> exception, val |-> <<>>]

\* "return inwards * solution[0]"
Scaling(inw, solution) ==
    IF solution = ZeroDivisionError THEN ZeroDivisionError ELSE VMul(inw, solution[1])

\* "inwards * solution[0]", or ZeroDivisionError out of solve_matrix.
magnitude(line, normal, inw) ==
    Scaling(inw, solve_matrix(<< <<inw[1], RNeg(line[1]), normal[1]>>,
                                 <<inw[2], RNeg(line[2]), normal[2]>> >>))

\* "Ray(point, magnitude(...))" once magnitude has returned or raised.
RayAlong(p, v) == IF v = ZeroDivisionError THEN ZeroDivisionError ELSE Ray(p, v)

\* offset_inward_ray from "return Ray(...)" on.
InwardRay(p, line, ai, bi) == RayAlong(p, magnitude(line, ai, VAdd(ai, bi)))

\* offset_inward_ray from "ai, bi = ..." on.
InwardRayBetween(points, a, b) ==
    InwardRay(b.p, a.v, inwards(points, a), inwards(points, b))

\* The ray of the vertex ix (counted from 1), or ZeroDivisionError.
offset_inward_ray(points, ix) ==
    InwardRayBetween(points,
                     LineSegment(points[((ix + Len(points) - 2) % Len(points)) + 1],
                                 points[ix]),
                     LineSegment(points[ix], points[(ix % Len(points)) + 1]))

find_inward_ray(points, edge) ==
    InwardsAlong(LineSegments(points), edge,
                 Ray(VMul(VAdd(edge.p, P2(edge)), <<1, 2>>), cross(edge.v)))

\* find_collision from "if solution[0] < 0 or solution[0] > 1" on.
CollisionAt(line, normal, solution) ==
    IF solution = ZeroDivisionError THEN Raises("ZeroDivisionError")
    ELSE IF RLt(solution[1], R(0)) \/ RLt(R(1), solution[1]) THEN Ok(None)
    ELSE Ok(Some(<<VAdd(VAdd(line.p, VMul(line.v, solution[1])),
                        VMul(normal, solution[2])),
                   solution[2]>>))

\* find_collision from "solution = solve_matrix(matrix)" on, for the rows
\* of line.v, d = normal - inwards and e = vertex - line.p.
CollisionBy(line, normal, d, e) ==
    CollisionAt(line, normal,
                solve_matrix(<< <<line.v[1], d[1], e[1]>>, <<line.v[2], d[2], e[2]>> >>))

\* Ok(None), Ok(Some(<<point, offset>>)) or Raises("ZeroDivisionError").
find_collision(line, normal, vertex, inw) ==
    CollisionBy(line, normal, VSub(normal, inw), VSub(vertex, line.p))

\* "except ZeroDivisionError: return None"
Caught(found) == IF found.exc = "ZeroDivisionError" THEN None ELSE found.val

\* None, or Some(<<point, offset>>).
safe_find_collision(line, normal, vertex, inw) ==
    Caught(find_collision(line, normal, vertex, inw))

\* "inwards[segment]": the value filed under a key equal to the segment, in
\* a dictionary built from segs and their normals; None for KeyError.
Lookup(segs, normals, segment) ==
    IF \E i \in 1..Len(segs) : LineEq(segs[i], segment)
    THEN Some(normals[CHOOSE i \in 1..Len(segs) : LineEq(segs[i], segment)])
    ELSE None

\* find_collisions: what safe_find_collision gives for every segment that
\* does not touch the ray's point, None for the others.
Initial(ray, segs, normals) ==
    [i \in 1..Len(segs) |->
        IF segs[i].p # ray.p /\ P2(segs[i]) # ray.p
        THEN safe_find_collision(segs[i], Lookup(segs, normals, segs[i])[1], ray.p, ray.v)
        ELSE None]

\* find_collisions from "initial = ((a, b) for a, b in initial if b)" on:
\* <<other, ray.p, point, offset>> for the offsets above zero.
Collisions(ray, segs, initial) ==
    SelectSeq2([i \in 1..Len(segs) |->
                   IF initial[i] = None THEN None
                   ELSE <<segs[i], ray.p, initial[i][1][1], initial[i][1][2]>>],
               {i \in 1..Len(segs) : initial[i] # None /\ RLt(R(0), initial[i][1][2])})

find_collisions(ray, segs, normals) == Collisions(ray, segs, Initial(ray, segs, normals))

\* <<segments, inwards>>, the dictionary as the list of its values.
inner_properties(points) ==
    <<LineSegments(points),
      [i \in 1..Len(points) |-> find_inward_ray(points, LineSegments(points)[i])]>>

\* A list of rays, or ZeroDivisionError when one of them is.
AllOrError(rays) ==
    IF \E ix \in 1..Len(rays) : rays[ix] = ZeroDivisionError THEN ZeroDivisionError
    ELSE rays

\* The rays of a polygon, or ZeroDivisionError.
to_rays(points) == AllOrError([ix \in 1..Len(points) |-> offset_inward_ray(points, ix)])

\* "[*l[n:], *l[:n]]" for 0 <= n <= len(l).
shift(l, n) == SubSeq(l, n + 1, Len(l)) \o SubSeq(l, 1, n)

\* "min(collisions, key=lambda t: t[2])": the first of the least offsets.
MinOffset(collisions) ==
    collisions[CHOOSE i \in 1..Len(collisions) :
        /\ \A j \in 1..Len(collisions) : RLe(collisions[i][4], collisions[j][4])
        /\ \A j \in 1..(i - 1) : RLt(collisions[i][4], collisions[j][4])]

\* partition's loop over the shifted rays: the rays before the first ray
\* equal to the splitter, and the rays after it that are not equal to it.
Parted(shifted, splitter) ==
    LET at == {i \in 1..Len(shifted) : LineEq(shifted[i], splitter)}
        first == CHOOSE i \in at : \A j \in at : i <= j
    IN  <<SubSeq(shifted, 1, first - 1),
          SelectSeq2(shifted, {i \in (first + 1)..Len(shifted) : i \notin at})>>

\* partition, with cut_i counted from 1 and line_i from 0 as the code
\* counts it.
partition(rays, cut_i, line_i) == Parted(shift(rays, line_i + 1), rays[cut_i])

\* find_merge_ray from "return Ray(new_vertex, magnitude(...))" on.
MergeRay(new_vertex, m) ==
    IF m = ZeroDivisionError THEN Raises("ZeroDivisionError")
    ELSE IF new_vertex = None THEN Raises("AttributeError")
    ELSE Ok(Ray(new_vertex[1], m))

\* find_merge_ray from "ai = inwards[segment]" on.
MergeRayOf(segment, line, ai, bi) ==
    IF ai = None \/ bi = None THEN Raises("KeyError")
    ELSE MergeRay(intersect_line2_line2(Line(line.p, P2(line)),
                                        Line(segment.p, P2(segment))),
                  magnitude(segment.v, ai[1], VAdd(ai[1], bi[1])))

\* find_merge_ray from "new_vertex = ..." on.
MergeRayOn(segment, line, props) ==
    MergeRayOf(segment, line, Lookup(props[1], props[2], segment),
               Lookup(props[1], props[2], line))

find_merge_ray(a, b, line, props) == MergeRayOn(LineSegment(a, b), line, props)

\* find_first_split_event, "return (offset, [_rays for _rays in (a, b) if
\* _rays])", or the exception of a find_merge_ray.
SplitEvent(offset, ab, ma, mb) ==
    IF ma.exc # "" THEN Raises(ma.exc)
    ELSE IF mb.exc # "" THEN Raises(mb.exc)
    ELSE Ok(<<offset,
              (IF Len(ab[1]) > 1 THEN <<Append(ab[1], ma.val)>> ELSE <<>>)
                  \o (IF Len(ab[2]) > 1 THEN << <<mb.val>> \o ab[2] >> ELSE <<>>)>>)

\* find_first_split_event from "a = [...] if len(a) > 1 else []" on; a
\* find_merge_ray that is not called gives Ok.
Merged(offset, ab, cut, line, props) ==
    SplitEvent(offset, ab,
               IF Len(ab[1]) > 1
               THEN find_merge_ray(ab[1][Len(ab[1])].p, cut, line, props)
               ELSE Ok(<<>>),
               IF Len(ab[2]) > 1
               THEN find_merge_ray(cut, ab[2][1].p, line, props)
               ELSE Ok(<<>>))

\* find_first_split_event from "cut = polygon.points[cut_i]" on, with cut_i
\* counted from 1 and line_i from 0.
Cut(rays, points, props, offset, cut_i, line_i) ==
    Merged(offset, partition(rays, cut_i, line_i), points[cut_i],
           LineSegment(points[line_i + 1], points[((line_i + 1) % Len(points)) + 1]),
           props)

\* find_first_split_event from "cut_i = polygon.index_of(cut)" on.
CutAt(rays, points, props, best) ==
    Cut(rays, points, props, best[4],
        index_of(points, best[2]), index_of(points, best[1].p) - 1)

\* find_first_split_event from "(segment, cut), point, offset = min(...)"
\* on: min of an empty list raises ValueError.
FirstOf(rays, points, props, solutions) ==
    IF solutions = <<>> THEN Raises("ValueError")
    ELSE CutAt(rays, points, props, MinOffset(solutions))

\* find_first_split_event, "solutions = [min(collisions, ...) for
\* collisions in all_collisions if collisions]".
Solutions(all_collisions) ==
    SelectSeq2([i \in 1..Len(all_collisions) |->
                   IF all_collisions[i] = <<>> THEN None
                   ELSE MinOffset(all_collisions[i])],
               {i \in 1..Len(all_collisions) : all_collisions[i] # <<>>})

\* find_first_split_event from "all_collisions = ..." on.
SplitOf(rays, points, props) ==
    FirstOf(rays, points, props,
            Solutions([i \in 1..Len(rays) |-> find_collisions(rays[i], props[1], props[2])]))

\* find_first_split_event from "segments, inwards = ..." on.
SplitAmong(rays, points) == SplitOf(rays, points, inner_properties(points))

\* Ok(<<offset, parts>>), or the exception.
find_first_split_event(rays) == SplitAmong(rays, [i \in 1..Len(rays) |-> rays[i].p])

\* "except ZeroDivisionError: return None"; any other exception passes.
CaughtEvent(found) ==
    IF found.exc = "ZeroDivisionError" THEN Ok(None)
    ELSE IF found.exc # "" THEN found
    ELSE Ok(Some(found.val))

safe_find_first_split_event(rays) == CaughtEvent(find_first_split_event(rays))

\* "[(rays, safe_find_first_split_event(rays)) for rays in all_rays]" from
\* the events of the polygons: the list, or the first exception.
Paired(all_rays, events) ==
    IF \E i \in 1..Len(events) : events[i].exc # ""
    THEN Raises(events[CHOOSE i \in 1..Len(events) :
                    events[i].exc # "" /\ \A j \in 1..(i - 1) : events[j].exc = ""].exc)
    ELSE Ok([i \in 1..Len(all_rays) |-> <<all_rays[i], events[i].val>>])

split_events(all_rays) ==
    Paired(all_rays, [i \in 1..Len(all_rays) |-> safe_find_first_split_event(all_rays[i])])

\* "[o[1][0] for o in offsets if o[1]]"
amounts(offsets) ==
    LET with == {i \in 1..Len(offsets) : offsets[i][2] # None}
    IN  SelectSeq2([i \in 1..Len(offsets) |->
                       IF i \in with THEN offsets[i][2][1][1] ELSE None], with)

\* A loop that is not nonlocal_offset's: it never runs.
no_events(offsets, amount) == FALSE

\* "amounts and amount >= min(amounts)"
more_events(offsets, amount) ==
    /\ amounts(offsets) # <<>>
    /\ \E i \in 1..Len(amounts(offsets)) : RLe(amounts(offsets)[i], amount)

\* The all_rays of the next round: the parts of every polygon whose event
\* is within amount, and every other polygon as it is.
next_rays(offsets, amount) ==
    Flatten([i \in 1..Len(offsets) |->
        IF offsets[i][2] = None \/ RLt(amount, offsets[i][2][1][1])
        THEN <<offsets[i][1]>>
        ELSE offsets[i][2][1][2]])

\* "[ray.p + ray.v * amount for ray in polygon]"
moved(rays, amount) ==
    [i \in 1..Len(rays) |-> VAdd(rays[i].p, VMul(rays[i].v, amount))]

(***************************************************************************)
(* The inputs of nonlocal_offset.  Every edge is parallel to an axis or    *)
(* has the slope of a 3-4-5 triangle, so that every length is a fraction.  *)
(***************************************************************************)
\* The largest side of an input square.
NonlocalMax == 3

\* The rectangle (x, y)-(x + w, y + h) in the vertex order of the docstrings.
NonlocalRect(x, y, w, h) ==
    RPolygon(<< <<x, y>>, <<x, y + h>>, <<x + w, y + h>>, <<x + w, y>> >>)

\* test_plane.py, test_offset_split_notch.
Notch == RPolygon(<< <<0, 0>>, <<6, 0>>, <<6, 5>>, <<3, 1>>, <<0, 5>> >>)

\* Two neighbouring edges that run back over each other.
Spike == RPolygon(<< <<0, 0>>, <<0, 8>>, <<0, 4>>, <<3, 0>> >>)

Triangle == RPolygon(<< <<0, 0>>, <<0, 4>>, <<3, 0>> >>)

\* A rectangle with a corner cut away along a 3-4-5 edge.
Wedge == RPolygon(<< <<0, 0>>, <<8, 0>>, <<4, 3>>, <<4, 6>>, <<0, 6>> >>)

\* Two triangles that share the corner (0, 0), one laid over the other.
Pinched == RPolygon(<< <<0, 0>>, <<0, 3>>, <<4, 3>>, <<0, 0>>, <<3, 4>>, <<3, 0>> >>)

\* The square with a square hole of the ComplexPolygon2.offset docstring.
Holed == ComplexPolygon(<<NonlocalRect(1, 1, 1, 1)>>, <<NonlocalRect(0, 0, 3, 3)>>)

NonlocalComplexes ==
    {ComplexPolygonOf(<<NonlocalRect(0, 0, w, w)>>) : w \in 1..NonlocalMax}
    \cup {ComplexPolygonOf(<<Notch>>), ComplexPolygon(<<>>, <<Notch>>),
          ComplexPolygonOf(<<Triangle>>),
          ComplexPolygon(<<>>, <<Spike>>),
          ComplexPolygon(<<>>, <<Wedge>>),
          ComplexPolygon(<<>>, <<Pinched>>),
          ComplexPolygonOf(<<NonlocalRect(0, 0, 3, 3), NonlocalRect(1, 1, 1, 1)>>),
          Holed,
          ComplexPolygonOf(<<NonlocalRect(0, 0, 3, 3), NonlocalRect(4, 0, 1, 1)>>)}

\* -0.5, -0.1, 0.1, 0.3, 0.475, 0.6, 1.2, 1.3 and 2.5.
NonlocalAmounts ==
    {Rat(-1, 2), Rat(-1, 10), Rat(1, 10), Rat(3, 10), Rat(19, 40), Rat(3, 5), Rat(6, 5),
     Rat(13, 10), Rat(5, 2)}

NonlocalInit ==
    /\ TrapIdle /\ PipeIdle /\ OffIdle /\ MotionIdle
    /\ SolveIdle /\ ContainsIdle /\ FrangeIdle /\ BatchIdle
    /\ n_complex \in NonlocalComplexes
    /\ n_amount \in NonlocalAmounts
    /\ n_all_rays = <<>> /\ n_offsets = <<>>
    /\ n_result = None /\ n_exc = ""
    /\ npc = "call"

\* Where nonlocal_offset stands once "offsets = ..." has run: at its loop,
\* or out of its frame with the exception.
Looping(all_rays, offsets) ==
    IF offsets.exc # ""
    THEN [pc |-> "raised", exc |-> offsets.exc, all_rays |-> <<>>, offsets |-> <<>>]
    ELSE [pc |-> "while", exc |-> "", all_rays |-> all_rays, offsets |-> offsets.val]

\* "offsets = [...]" for the all_rays of a round.
Round(all_rays) == Looping(all_rays, split_events(all_rays))

\* "all_rays = [to_rays(polygon) for polygon in complex.exterior]" and the
\* first "offsets = [...]".
Entered(all_rays) ==
    IF \E i \in 1..Len(all_rays) : all_rays[i] = ZeroDivisionError
    THEN [pc |-> "raised", exc |-> "ZeroDivisionError", all_rays |-> <<>>, offsets |-> <<>>]
    ELSE Round(all_rays)

NonlocalGoes(to) ==
    /\ npc' = to.pc /\ n_exc' = to.exc
    /\ n_all_rays' = to.all_rays /\ n_offsets' = to.offsets

\* nonlocal_offset up to its loop: all_rays, and the first offsets.
NonlocalEnter ==
    /\ npc = "call"
    /\ NonlocalGoes(Entered([i \in 1..Len(n_complex.exterior) |->
                                to_rays(n_complex.exterior[i])]))
    /\ UNCHANGED <<trapVars, pipeVars, offVars, motionVars, solveVars, containsVars, frangeVars,
                   batchVars, n_complex, n_amount, n_result>>

\* One round of "while amounts and amount >= min(amounts)".
NonlocalSplit ==
    /\ npc = "while"
    /\ more_events(n_offsets, n_amount)
    /\ NonlocalGoes(Round(next_rays(n_offsets, n_amount)))
    /\ UNCHANGED <<trapVars, pipeVars, offVars, motionVars, solveVars, containsVars, frangeVars,
                   batchVars, n_complex, n_amount, n_result>>

\* The loop is over: "return ComplexPolygon([...])".
NonlocalReturn ==
    /\ npc = "while"
    /\ ~more_events(n_offsets, n_amount)
    /\ n_result' = Some(ComplexPolygonOf(
                       [i \in 1..Len(n_all_rays) |-> moved(n_all_rays[i], n_amount)]))
    /\ npc' = "done"
    /\ UNCHANGED <<trapVars, pipeVars, offVars, motionVars, solveVars, containsVars, frangeVars,
                   batchVars, n_complex, n_amount, n_all_rays, n_offsets, n_exc>>

NonlocalNext == NonlocalEnter \/ NonlocalSplit \/ NonlocalReturn

NonlocalSpec == NonlocalInit /\ [][NonlocalNext]_vars

(***************************************************************************)
(* Polygon2.contains as a state machine: a call with a polygon and a       *)
(* point, and its return.                                                  *)
(***************************************************************************)
\* The points of the calls have coordinates -ContainsMax..ContainsMax, in
\* steps of a half.
ContainsMax == 2

\* test_plane.py, test_contain_through_point.
Diamond == RPolygon(<< <<-1, 0>>, <<0, 1>>, <<1, 0>>, <<0, -1>> >>)

\* The triangle of the docstring of Polygon2.contains.
DocTriangle == RPolygon(<< <<2, 0>>, <<0, 0>>, <<1, 1>> >>)

\* A polygon with a vertex in the middle of its height.
Stairs ==
    RPolygon(<< <<0, 0>>, <<0, 2>>, <<1, 2>>, <<1, 1>>, <<2, 1>>, <<2, 0>> >>)

\* The diamond, the square of test_point_on_shape, the triangle and the
\* staircase.
ContainsPolygons == {Diamond, NonlocalRect(0, 0, 1, 1), DocTriangle, Stairs}

ContainsPoints ==
    {<<Rat(x, 2), Rat(y, 2)>> : x, y \in (-2 * ContainsMax)..(2 * ContainsMax)}

ContainsInit ==
    /\ TrapIdle /\ PipeIdle /\ OffIdle /\ MotionIdle
    /\ SolveIdle /\ FrangeIdle /\ BatchIdle /\ NonlocalIdle
    /\ c_polygon \in ContainsPolygons
    /\ c_p \in ContainsPoints
    /\ c_result = FALSE
    /\ cpc = "call"

\* polygon.contains(p), from the call to the return.
Contains ==
    /\ cpc = "call"
    /\ c_result' = contains(c_polygon, c_p)
    /\ cpc' = "done"
    /\ UNCHANGED <<trapVars, pipeVars, offVars, motionVars, solveVars, frangeVars, batchVars,
                   nonlocalVars, c_polygon, c_p>>

ContainsNext == Contains

ContainsSpec == ContainsInit /\ [][ContainsNext]_vars

(***************************************************************************)
(* petrify/util.py, frange, as a state machine: the generator from its     *)
(* first statement to its end, with the list of the values it has yielded. *)
(* a, b and step are whole numbers, so that no sum is rounded.             *)
(***************************************************************************)
\* a and b are -FrangeMax..FrangeMax.
FrangeMax == 3

\* The steps are -StepMax..StepMax without zero.
StepMax == 2

\* math.floor(n / d) for d other than zero.
Floor(n, d) == IF d > 0 THEN n \div d ELSE (0 - n) \div (0 - d)

FrangeInit ==
    /\ TrapIdle /\ PipeIdle /\ OffIdle /\ MotionIdle
    /\ SolveIdle /\ ContainsIdle /\ BatchIdle /\ NonlocalIdle
    /\ fr_a \in (-FrangeMax)..FrangeMax
    /\ fr_b \in (-FrangeMax)..FrangeMax
    /\ fr_step \in ((-StepMax)..StepMax) \ {0}
    /\ fr_inclusive \in BOOLEAN
    /\ fr_count = 0 /\ fr_ix = 0 /\ fr_yielded = <<>>
    /\ frpc = "call"

\* "count = math.floor((float(b) - float(a)) / step) if a != b else 1"
FrangeCount ==
    /\ frpc = "call"
    /\ fr_count' = IF fr_a # fr_b THEN Floor(fr_b - fr_a, fr_step) ELSE 1
    /\ fr_ix' = 0
    /\ frpc' = "for"
    /\ UNCHANGED <<trapVars, pipeVars, offVars, motionVars, solveVars, containsVars, batchVars,
                   nonlocalVars, fr_a, fr_b, fr_step, fr_inclusive, fr_yielded>>

\* One round of "for ix in range(0, count + 1)".
FrangeFor ==
    /\ frpc = "for"
    /\ fr_ix < fr_count + 1
    /\ fr_yielded' = IF fr_a + (fr_ix * fr_step) # fr_b
                     THEN Append(fr_yielded, fr_a + (fr_ix * fr_step))
                     ELSE fr_yielded
    /\ fr_ix' = fr_ix + 1
    /\ UNCHANGED <<trapVars, pipeVars, offVars, motionVars, solveVars, containsVars, batchVars,
                   nonlocalVars, fr_a, fr_b, fr_step, fr_inclusive, fr_count, frpc>>

\* The loop is over: "if inclusive: yield b", and the generator ends.
FrangeEnd ==
    /\ frpc = "for"
    /\ ~(fr_ix < fr_count + 1)
    /\ fr_yielded' = IF fr_inclusive THEN Append(fr_yielded, fr_b) ELSE fr_yielded
    /\ frpc' = "done"
    /\ UNCHANGED <<trapVars, pipeVars, offVars, motionVars, solveVars, containsVars, batchVars,
                   nonlocalVars, fr_a, fr_b, fr_step, fr_inclusive, fr_count, fr_ix>>

FrangeNext == FrangeCount \/ FrangeFor \/ FrangeEnd

FrangeSpec == FrangeInit /\ [][FrangeNext]_vars

(***************************************************************************)
(* petrify/machine/feed.py, batch_scanlines, as a state machine: one step  *)
(* per level of scanlines.  A line is a pair of points of one y, a shape   *)
(* the list of its lines, a level the list of the lines of one y from left *)
(* to right, as LinearStepFeed.scanlines builds them.                      *)
(***************************************************************************)
\* The x of the scanlines are 0..BatchMax.
BatchMax == 4

\* The argument has up to BatchLevels levels.
BatchLevels == 3

\* One scanline: a pair of x, the left one first.
XLines == {xs \in (0..BatchMax) \X (0..BatchMax) : xs[1] < xs[2]}

\* One level: one line, or two apart from each other.
XLevels ==
    {<<a>> : a \in XLines}
        \cup {ab \in XLines \X XLines : ab[1][2] < ab[2][1]}

\* "[(a, b) for a, b in grouper(2, points)]" for every y, the y being 1, 2, ...
ScanlinesOf(xs) ==
    [k \in 1..Len(xs) |->
        [j \in 1..Len(xs[k]) |-> <<<<xs[k][j][1], k>>, <<xs[k][j][2], k>>>>]]

\* "(bx0 >= ax0 and bx0 <= ax1) or (bx1 >= ax0 and bx1 <= ax1)"
Matches(ax0, ax1, bx0, bx1) ==
    (bx0 >= ax0 /\ bx0 <= ax1) \/ (bx1 >= ax0 /\ bx1 <= ax1)

\* The ix at which "for ix, shape in enumerate(current_shapes)" breaks, from
\* 1, or 0 when the loop ends without a match.
MatchedIx(current_shapes, line) ==
    LET found == {ix \in 1..Len(current_shapes) :
                     Matches(current_shapes[ix][Len(current_shapes[ix])][1][1],
                             current_shapes[ix][Len(current_shapes[ix])][2][1],
                             line[1][1], line[2][1])}
    IN IF found = {} THEN 0 ELSE CHOOSE ix \in found : \A other \in found : ix <= other

\* current_shapes.pop(ix)
Popped(shapes, ix) ==
    [k \in 1..(Len(shapes) - 1) |-> IF k < ix THEN shapes[k] ELSE shapes[k + 1]]

\* "for line in level_lines": current_shapes and next_shapes after the lines.
RECURSIVE level_shapes(_, _, _)
level_shapes(level_lines, current_shapes, next_shapes) ==
    IF level_lines = <<>>
    THEN <<current_shapes, next_shapes>>
    ELSE LET line == Head(level_lines)
             ix == MatchedIx(current_shapes, line)
         IN IF ix # 0
            THEN level_shapes(Tail(level_lines), Popped(current_shapes, ix),
                              Append(next_shapes, Append(current_shapes[ix], line)))
            ELSE level_shapes(Tail(level_lines), current_shapes,
                              Append(next_shapes, <<line>>))

BatchInit ==
    /\ TrapIdle /\ PipeIdle /\ OffIdle /\ MotionIdle
    /\ SolveIdle /\ ContainsIdle /\ FrangeIdle /\ NonlocalIdle
    /\ \E n \in 1..BatchLevels : \E xs \in [1..n -> XLevels] :
           b_scanlines = ScanlinesOf(xs)
    /\ b_level = 1
    /\ b_final = <<>> /\ b_current = <<>> /\ b_result = <<>>
    /\ bpc = "for"

\* One round of "for level_lines in scanlines".
BatchLevel ==
    /\ bpc = "for"
    /\ b_level <= Len(b_scanlines)
    /\ LET shapes == level_shapes(b_scanlines[b_level], b_current, <<>>)
       IN /\ b_final' = b_final \o shapes[1]
          /\ b_current' = shapes[2]
    /\ b_level' = b_level + 1
    /\ UNCHANGED <<trapVars, pipeVars, offVars, motionVars, solveVars, containsVars, frangeVars,
                   nonlocalVars, b_scanlines, b_result, bpc>>

\* "return [*final_shapes, *current_shapes]"
BatchReturn ==
    /\ bpc = "for"
    /\ b_level > Len(b_scanlines)
    /\ b_result' = b_final \o b_current
    /\ bpc' = "done"
    /\ UNCHANGED <<trapVars, pipeVars, offVars, motionVars, solveVars, containsVars, frangeVars,
                   nonlocalVars, b_scanlines, b_level, b_final, b_current>>

BatchNext == BatchLevel \/ BatchReturn

BatchSpec == BatchInit /\ [][BatchNext]_vars

(***************************************************************************)
(* machine/motion.py: Motion.merge and the fold of it in Cut.time.  A      *)
(* field of a Motion is None or <<v>>.                                     *)
(***************************************************************************)

\* The commands of a cut the properties look at.
MaxCommands == 2

\* "Motion(x=None, y=None, z=None, f=None)"
Motion(x, y, z, f) == [x |-> x, y |-> y, z |-> z, f |-> f]

\* What Python's "if v" makes of a field: None and 0 are false.
Truthy(v) == v # None /\ v # Some(0)

\* "a or b"
PyOr(a, b) == IF Truthy(a) THEN a ELSE b

\* merge that takes every field other names, the value 0 included.
merge_specified(self, other) ==
    Motion(IF other.x # None THEN other.x ELSE self.x,
           IF other.y # None THEN other.y ELSE self.y,
           IF other.z # None THEN other.z ELSE self.z,
           IF other.f # None THEN other.f ELSE self.f)

\* Motion.merge
merge(self, other) ==
    Motion(PyOr(other.x, self.x), PyOr(other.y, self.y), PyOr(other.z, self.z),
           PyOr(other.f, self.f))

\* "(cur - prior).magnitude()", squared: cur and was are the Points of two
\* states whose x, y and z are numbers.
DistanceSquared(cur, was) ==
    (cur.x[1] - was.x[1]) * (cur.x[1] - was.x[1])
        + (cur.y[1] - was.y[1]) * (cur.y[1] - was.y[1])
        + (cur.z[1] - was.z[1]) * (cur.z[1] - was.z[1])

\* The Motions a cut yields, and a command that is not a Motion.
Commanded ==
    {Motion(x, y, z, f) : x \in {None, Some(0), Some(1), Some(2)},
                          y \in {None, Some(0), Some(1)},
                          z \in {None, Some(0)},
                          f \in {None, Some(0), Some(3)}}

NotAMotion == [dwell |-> 1]

CommandLists ==
    UNION {[1..n -> Commanded \cup {NotAMotion}] : n \in 0..MaxCommands}

\* "isinstance(cmd, Motion)"
IsMotion(cmd) == cmd \in Commanded

MotionInit ==
    /\ TrapIdle /\ PipeIdle /\ OffIdle
    /\ SolveIdle /\ ContainsIdle /\ FrangeIdle /\ BatchIdle /\ NonlocalIdle
    /\ m_commands \in CommandLists
    /\ m_ix = 1
    /\ m_state = Motion(Some(0), Some(0), Some(0), Some(0))
    /\ m_dt = <<>>
    /\ mpc = "for"

\* One round of "for (parent, cmd) in self.commands()"; "d / fr" raises
\* ZeroDivisionError when the merged feed rate is 0.
TimeStep ==
    /\ mpc = "for"
    /\ m_ix <= Len(m_commands)
    /\ IF IsMotion(m_commands[m_ix])
       THEN /\ m_state' = merge(m_state, m_commands[m_ix])
            /\ IF m_state'.f = Some(0)
               THEN mpc' = "raised" /\ UNCHANGED m_dt
               ELSE /\ m_dt' = Append(m_dt, <<DistanceSquared(m_state', m_state),
                                              m_state'.f[1]>>)
                    /\ UNCHANGED mpc
       ELSE UNCHANGED <<m_state, m_dt, mpc>>
    /\ m_ix' = m_ix + 1
    /\ UNCHANGED <<trapVars, pipeVars, offVars, solveVars, containsVars, frangeVars,
                   batchVars, nonlocalVars, m_commands>>

\* "return dt"
TimeReturn ==
    /\ mpc = "for"
    /\ m_ix > Len(m_commands)
    /\ mpc' = "done"
    /\ UNCHANGED <<trapVars, pipeVars, offVars, solveVars, containsVars, frangeVars,
                   batchVars, nonlocalVars, m_commands, m_ix, m_state, m_dt>>

MotionNext == TimeStep \/ TimeReturn

MotionSpec == MotionInit /\ [][MotionNext]_vars

(***************************************************************************)
(* Measures of the input and of the result, for the properties below.      *)
(* Result points are <<X * Scale, y>>; input points are <<x, y>>.          *)
(***************************************************************************)
\* Twice the shoelace area of a polygon.
Shoelace2(points) ==
    Abs(SumSeq([i \in 1..Len(points) |->
        LET l == exact_segments(points)[i]
        IN  l[1][1] * l[2][2] - l[2][1] * l[1][2]]))

\* Twice the even-odd-filled area of the inputs: every input is one exterior,
\* the polygon of largest area, and the holes inside it.
RegionArea2(polys) ==
    LET areas == [i \in 1..Len(polys) |-> Shoelace2(polys[i])]
        outer == CHOOSE a \in Range(areas) : \A b \in Range(areas) : b <= a
    IN  2 * outer - SumSeq(areas)

Scaled(points) == [i \in 1..Len(points) |-> <<points[i][1] * Scale, points[i][2]>>]

\* Sample points <<sx, sy>> stand for (sx / 2, sy / 2) with sy odd, so that no
\* sample is level with a vertex.
Samples == {<<sx, sy>> \in (0..2 * MaxCoord) \X (1..2 * MaxCoord) : sy % 2 = 1}

\* Where the edge l (scaled) stands relative to the sample s: "left" when the
\* edge passes the level of s to the left of s, "right", "on", or "off" when
\* the edge does not pass the level of s.
EdgeSide(l, s) ==
    LET dy == l[2][2] - l[1][2]
        px == s[1] * (Scale \div 2)
        \* (X of the edge at the level of s - px) * 2 * |dy|
        d  == 2 * l[1][1] * dy + (s[2] - 2 * l[1][2]) * (l[2][1] - l[1][1]) - 2 * px * dy
        e  == IF dy > 0 THEN d ELSE 0 - d
    IN  IF (2 * l[1][2] > s[2]) = (2 * l[2][2] > s[2]) THEN "off"
        ELSE IF e > 0 THEN "right" ELSE IF e < 0 THEN "left" ELSE "on"

EdgesOf(polys) == Flatten([i \in 1..Len(polys) |-> exact_segments(polys[i])])

OnAnEdge(polys, s) ==
    \E i \in 1..Len(EdgesOf(polys)) : EdgeSide(EdgesOf(polys)[i], s) = "on"

\* Even-odd rule: a ray from s to the right crosses an odd number of edges.
InsideEvenOdd(polys, s) ==
    Cardinality({i \in 1..Len(EdgesOf(polys)) :
                    EdgeSide(EdgesOf(polys)[i], s) = "right"}) % 2 = 1

ScaledInputs == [i \in 1..Len(polygons) |-> Scaled(polygons[i])]

Returned == tpc = "done"

\* C1: when trapezoidal, called without min_area, has returned, the areas of
\* the returned polygons add up to the even-odd-filled area of the input
\* (the shoelace area of the exterior minus that of the holes).
C1_AreaConserved ==
    (Returned /\ min_area = None) =>
        SumSeq([i \in 1..Len(result) |-> Shoelace2(result[i])])
            = Scale * RegionArea2(polygons)

\* C2: when trapezoidal has returned, a sample point on no edge is inside
\* some returned trapezoid exactly when it is inside the input under the
\* even-odd rule; no returned trapezoid covers a point of a hole.
C2_ContainmentRoundTrip ==
    (Returned /\ min_area = None) =>
        \A s \in Samples :
            (~OnAnEdge(ScaledInputs, s) /\ ~OnAnEdge(result, s)) =>
                ((\E i \in 1..Len(result) : InsideEvenOdd(<<result[i]>>, s))
                    <=> InsideEvenOdd(ScaledInputs, s))

\* The levels of the sweep, computed from the input alone.
InputLevels == SortedSet({EdgesOf(polygons)[i][1][2] : i \in 1..Len(EdgesOf(polygons))})

\* The bands between two consecutive levels, lowest first.
InputBands ==
    [k \in 1..(Len(InputLevels) - 1) |-> <<InputLevels[k], InputLevels[k + 1]>>]

\* The number of walls of the input that cross the band: the edges that are
\* not horizontal and reach from the lower level or below to the upper level
\* or above.
WallsAcross(band) ==
    Cardinality({i \in 1..Len(EdgesOf(polygons)) :
        LET l == EdgesOf(polygons)[i]
        IN  /\ l[1][2] # l[2][2]
            /\ Min(l[1][2], l[2][2]) <= band[1]
            /\ Max(l[1][2], l[2][2]) >= band[2]})

Ys(points) == {points[i][2] : i \in 1..Len(points)}

\* The band a returned polygon spans: its lowest and its highest Y.
BandOf(points) ==
    <<CHOOSE y \in Ys(points) : \A z \in Ys(points) : y <= z,
      CHOOSE y \in Ys(points) : \A z \in Ys(points) : y >= z>>

\* The X (times Scale) of the points of a returned polygon on its lower level.
LowerXs(points) == {points[i][1] : i \in {j \in 1..Len(points) : points[j][2] = BandOf(points)[1]}}

BandIndex(band) == CHOOSE k \in 1..Len(InputBands) : InputBands[k] = band

\* result[i] comes before result[j] in the order of the sweep: a lower band,
\* or the same band and walls not to the right on the lower level.
SweepOrdered(i, j) ==
    LET bi == BandOf(result[i])
        bj == BandOf(result[j])
    IN  \/ bi[1] < bj[1]
        \/ /\ bi = bj
           /\ \A x \in LowerXs(result[i]) : \A z \in LowerXs(result[j]) : x <= z

StaircaseBands == <<<<0, 2>>, <<2, 4>>, <<4, 5>>, <<5, 7>>>>

\* tests/test_decompose.py, test_complex: the expected polygons.
StaircaseTrapezoids ==
    <<Scaled(<<<<0, 0>>, <<0, 2>>, <<2, 2>>, <<2, 0>>>>),
      Scaled(<<<<0, 2>>, <<0, 4>>, <<4, 4>>, <<4, 2>>>>),
      Scaled(<<<<0, 4>>, <<0, 5>>, <<2, 5>>, <<2, 4>>>>),
      Scaled(<<<<0, 5>>, <<0, 7>>, <<4, 7>>, <<4, 5>>>>)>>

\* C3: trapezoidal returns, and has emitted, for every band between two
\* consecutive levels, one trapezoid per pair of walls crossing the band
\* (half the number of crossing walls), each with its first and last point on
\* the lower level and its two middle points on the upper level; the returned
\* polygons are in ascending order of band and, within a band, of X; the
\* staircase gives exactly 4 trapezoids, one for each of the bands 0-2, 2-4,
\* 4-5 and 5-7.
C3_OneTrapezoidPerWallPair ==
    /\ tpc # "raised"
    /\ (Returned /\ min_area = None) =>
        /\ Len(result) = Len(trapezoids)
        /\ \A i \in 1..Len(trapezoids) :
            LET t == trapezoids[i]
            IN  /\ Len(t) = 4
                /\ t[1][2] = t[4][2] /\ t[2][2] = t[3][2]
                /\ <<t[1][2], t[2][2]>> \in Range(InputBands)
                /\ BandOf(result[i]) = <<t[1][2], t[2][2]>>
        /\ \A k \in 1..Len(InputBands) :
            2 * Cardinality({i \in 1..Len(result) : BandOf(result[i]) = InputBands[k]})
                = WallsAcross(InputBands[k])
        /\ \A i \in 1..(Len(result) - 1) : SweepOrdered(i, i + 1)
        /\ (polygons[1] \in BothWindings(Rotations(Staircase))) =>
            [i \in 1..Len(result) |-> BandOf(result[i])] = StaircaseBands
        /\ (polygons = <<Staircase>>) => result = StaircaseTrapezoids

\* C3 witness: the staircase of the test has been decomposed into 4 polygons.
C3_Witness ==
    /\ Returned /\ min_area = None
    /\ polygons = <<Staircase>>
    /\ Len(result) = 4

(***************************************************************************)
(* Properties of fragment, decouple, rebuild and recreate_polygons.        *)
(***************************************************************************)
FragmentReturned == call = "fragment" /\ ppc = "done"

\* The cut points of the cutee C: the projections onto C of the endpoints of
\* the other segments that are not parallel to C, lie farther than error
\* from both endpoints of C and within error of C.
CutPoints(ix) ==
    LET C == f_segments[ix]
    IN  {connect(P, C) :
            P \in {L[e] : <<L, e>> \in
                     {Le \in {f_segments[j] : j \in (1..Len(f_segments)) \ {ix}} \X {1, 2} :
                         /\ non_overlapping(C, Le[1])
                         /\ magnitude_squared(Le[1][Le[2]], C[1]) > f_error * f_error
                         /\ magnitude_squared(Le[1][Le[2]], C[2]) > f_error * f_error
                         /\ magnitude_squared(Le[1][Le[2]], connect(Le[1][Le[2]], C))
                                <= f_error * f_error}}}

\* A set of points of C in the order of their distance from C's start.
RECURSIVE AlongFrom(_, _)
AlongFrom(start, S) ==
    IF S = {} THEN <<>>
    ELSE LET m == CHOOSE q \in S :
                      \A r \in S : magnitude_squared(start, q) <= magnitude_squared(start, r)
         IN  <<m>> \o AlongFrom(start, S \ {m})

ChainPoints(ix) ==
    AlongFrom(f_segments[ix][1], {f_segments[ix][1], f_segments[ix][2]} \cup CutPoints(ix))

\* The chain is contiguous from C.p1 to C.p2.
Contiguous(ix) ==
    LET chain == f_fragments[ix]
    IN  /\ chain # <<>>
        /\ chain[1][1] = f_segments[ix][1]
        /\ chain[Len(chain)][2] = f_segments[ix][2]
        /\ \A j \in 1..(Len(chain) - 1) : chain[j][2] = chain[j + 1][1]

DecoupleReturned == call = "decouple" /\ ppc = "done"

\* The undirected edge of a fragment on the quantum grid.
Edge(l) == {snap(l)[1], snap(l)[2]}

\* The fragments with the same undirected edge as frags[i].
Occurrences(frags, i) == Cardinality({j \in 1..Len(frags) : Edge(frags[j]) = Edge(frags[i])})

\* C5: decouple returns, in fragment order, exactly the fragments whose
\* undirected edge on the quantum grid occurs exactly once among all
\* fragments; no two returned fragments are equal or mutually reversed.
C5_KeepsEdgesOccurringOnce ==
    DecoupleReturned =>
        LET frags == Flatten(f_fragments)
        IN  /\ returned = SelectSeq2(frags, {i \in 1..Len(frags) : Occurrences(frags, i) = 1})
            /\ \A i, j \in 1..Len(returned) :
                 i # j => Edge(returned[i]) # Edge(returned[j])

RebuildReturned == call = "rebuild" /\ ppc = "done"

Xs(points) == {points[i][1] : i \in 1..Len(points)}

SetMin(S) == CHOOSE x \in S : \A y \in S : x <= y

SetMax(S) == CHOOSE x \in S : \A y \in S : x >= y

\* The length of the overlap of the intervals [a1, a2] and [b1, b2], negative
\* when they are apart.
Overlap(a1, a2, b1, b2) == Min(a2, b2) - Max(a1, b1)

\* Two rectangles whose interiors are disjoint and whose boundaries share a
\* stretch of positive length.
ShareAnEdge(r, q) ==
    LET ox == Overlap(SetMin(Xs(r)), SetMax(Xs(r)), SetMin(Xs(q)), SetMax(Xs(q)))
        oy == Overlap(SetMin(Ys(r)), SetMax(Ys(r)), SetMin(Ys(q)), SetMax(Ys(q)))
    IN  (ox = 0 /\ oy > 0) \/ (oy = 0 /\ ox > 0)

\* The inputs of C6: polygons of the same winding that overlap only along
\* shared edges or sub-edges.
SharedEdgesOnly ==
    \/ simple = MultiFrag
    \/ /\ Len(simple) = 2
       /\ clockwise(simple[1]) = clockwise(simple[2])
       /\ ShareAnEdge(simple[1], simple[2])

\* The centres of the lattice cells, as samples <<2 * x, 2 * y>>.
CellCentres ==
    {<<2 * (Pitch * i) + Pitch, 2 * (Pitch * j) + Pitch>> :
        <<i, j>> \in (0..(LatticeMax + 3)) \X (0..LatticeMax)}

\* tests/test_decompose.py, TestPolygons.test_simple, on the lattice.
TwoRects == <<rect(<<0, 0>>, <<Pitch, Pitch>>), rect(<<Pitch, 0>>, <<2 * Pitch, 2 * Pitch>>)>>

TwoRectsOutline ==
    <<<<0, 0>>, <<0, Pitch>>, <<Pitch, Pitch>>, <<Pitch, 2 * Pitch>>,
      <<2 * Pitch, 2 * Pitch>>, <<2 * Pitch, 0>>>>

\* C6: rebuild applied to polygons of the same winding that overlap only
\* along shared edges or sub-edges returns one polygon, the outline of their
\* union: it has the winding and the summed area of the inputs, it contains
\* a cell exactly when one of the inputs does, and it has no vertex on a
\* straight run; the rectangles (0,0)-(1,1) and (1,0)-(2,2) give
\* (0,0),(0,1),(1,1),(1,2),(2,2),(2,0) up to rotation.
C6_RebuildUnionOutline ==
    (call = "rebuild" /\ SharedEdgesOnly) =>
        /\ ppc # "raised"
        /\ ppc = "done" =>
            /\ Len(returned) = 1
            /\ clockwise(returned[1]) = clockwise(simple[1])
            /\ Shoelace2(returned[1]) = SumSeq([i \in 1..Len(simple) |-> Shoelace2(simple[i])])
            /\ \A s \in CellCentres :
                 InsideEvenOdd(<<Scaled(returned[1])>>, s)
                     <=> \E i \in 1..Len(simple) : InsideEvenOdd(<<Scaled(simple[i])>>, s)
            /\ collate_collinear(returned[1]) = returned[1]
            /\ simple = TwoRects => returned[1] \in Rotations(TwoRectsOutline)

RecreateCalled == call = "recreate_polygons" /\ simple # <<>>

VerticesOf(polys) == {polys[i][j] : <<i, j>> \in {ij \in (1..Len(polys)) \X (1..4) : ij[2] <= Len(polys[ij[1]])}}

VertexCount(polys) == SumSeq([i \in 1..Len(polys) |-> Len(polys[i])])

\* Pairwise vertex-disjoint polygons: no point is a vertex twice.
VertexDisjoint(polys) == Cardinality(VerticesOf(polys)) = VertexCount(polys)

SnapPolygon(points) == [i \in 1..Len(points) |-> snap_point(points[i], Quantum)]

SnapPolygons(polys) == [i \in 1..Len(polys) |-> SnapPolygon(polys[i])]

\* The polygons returned are the polygons polys, one for one, each up to
\* rotation and reflection.
SamePolygons(out, polys) ==
    /\ Len(out) = Len(polys)
    /\ \A j \in 1..Len(polys) :
         Cardinality({i \in 1..Len(out) : out[i] \in BothWindings(Rotations(polys[j]))}) = 1

C8_BranchAlwaysRaises ==
    (call = "recreate_polygons"
     /\ \E l \in r_index : \E e \in {1, 2} : Cardinality(by_point(r_index, l[e])) > 2)
        => ppc # "done"


(***************************************************************************)
(* Properties of OffsetSpec.  The polygons offset are axis-parallel        *)
(* rectangles, which are convex and whose inradius is half the shorter     *)
(* side.                                                                   *)
(***************************************************************************)
OffsetCalled == opc # "idle"

\* The unit vector pointing into a clockwise polygon from an axis-parallel
\* edge: the edge's direction turned to the right.
InwardNormal(l) == <<Sign(l[2][2] - l[1][2]), -Sign(l[2][1] - l[1][1])>>

\* The polygon whose edges are parallel to those of points at distance
\* |amount|, inside it when amount is negative and outside it when amount
\* is positive: every vertex moves along both adjacent inward normals.
ParallelPolygon(points, amount) ==
    LET n == Len(points)
        ls == exact_segments(points)
    IN  [i \in 1..n |->
            LET a == InwardNormal(ls[IF i = 1 THEN n ELSE i - 1])
                b == InwardNormal(ls[i])
            IN  <<points[i][1] - amount * (a[1] + b[1]),
                  points[i][2] - amount * (a[2] + b[2])>>]

\* Twice the inradius of a rectangle: its shorter side.
ShorterSide(points) ==
    Min(SetMax({points[i][1] : i \in 1..4}) - SetMin({points[i][1] : i \in 1..4}),
        SetMax({points[i][2] : i \in 1..4}) - SetMin({points[i][2] : i \in 1..4}))

\* Offsetting by amount moves no edge of the rectangle past the opposite one.
BelowInradius(points, amount) == amount > 0 \/ 2 * (-amount) < ShorterSide(points)

\* Offsetting by amount moves the edges of the rectangle past one another.
Collapses(points, amount) == amount < 0 /\ 2 * (-amount) > ShorterSide(points)

\* The boundaries of ps that do not collapse, offset by amount.
Surviving(ps, amount) ==
    LET kept == SelectSeq2(ps, {i \in 1..Len(ps) : ~Collapses(ps[i], amount)})
    IN  [i \in 1..Len(kept) |-> ParallelPolygon(kept[i], amount)]

\* C9: offsetting a convex polygon by a distance below its inradius raises
\* nothing and returns exactly one polygon, with the same number of vertices
\* in the same cyclic order and every edge parallel to the original edge at
\* that distance: the unit square with offset(-0.1) gives (0.1, 0.1),
\* (0.1, 0.9), (0.9, 0.9), (0.9, 0.1), and with offset(0.1) gives
\* (-0.1, -0.1), (-0.1, 1.1), (1.1, 1.1), (1.1, -0.1).
C9_ConvexOffsetParallel ==
    (o_call = "Polygon2.offset" /\ BelowInradius(o_self, o_amount)) =>
        /\ opc # "raised"
        /\ opc = "done" =>
              o_result = Some(ComplexPolygon(<<>>, <<ParallelPolygon(o_self, o_amount)>>))

\* C10: a boundary that collapses under the offset is absent from the result
\* and no error is raised: a polygon offset inward by more than its inradius
\* gives ComplexPolygon([]), and the boundaries of a ComplexPolygon that do
\* not collapse are still returned.
C10_CollapsedBoundaryAbsent ==
    /\ (o_call = "Polygon2.offset" /\ Collapses(o_self, o_amount)) =>
          /\ opc # "raised"
          /\ opc = "done" => o_result = Some(ComplexPolygon(<<>>, <<>>))
    /\ (/\ o_call = "ComplexPolygon2.offset"
        /\ \E i \in 1..Len(o_self.exterior) : Collapses(o_self.exterior[i], o_amount)) =>
          /\ opc # "raised"
          /\ opc = "done" =>
                o_result = Some(ComplexPolygon(Surviving(o_self.interior, -o_amount),
                                               Surviving(o_self.exterior, o_amount)))


\* The positions in the stack of the frames of Polygon2.offset under way.
Polygon2OffsetFrames ==
    {i \in 1..Len(o_stack) : o_stack[i].fn = "Polygon2.offset"}

\* C13: Polygon2.offset(amount) terminates and returns a ComplexPolygon: the
\* call raises nothing, and the chain Polygon2.offset ->
\* ComplexPolygon2.offset -> engines.offset.offset never has two frames of
\* Polygon2.offset with the same polygon and the same amount under way.
C13_OffsetNeverReenters ==
    o_call = "Polygon2.offset" =>
        /\ opc # "raised"
        /\ \A i, j \in Polygon2OffsetFrames :
              (o_stack[i].self = o_stack[j].self /\ o_stack[i].amount = o_stack[j].amount)
                  => i = j


(***************************************************************************)
(* Properties of SolveSpec.                                                *)
(***************************************************************************)
\* The square matrix M without its first row and without column c.
Minor(M, c) ==
    [r \in 1..(Len(M) - 1) |-> [k \in 1..(Len(M) - 1) |->
        M[r + 1][IF k < c THEN k ELSE k + 1]]]

RECURSIVE RSum(_)
RSum(rs) == IF rs = <<>> THEN R(0) ELSE RAdd(Head(rs), RSum(Tail(rs)))

\* The determinant of the first Len(M) columns of M, along the first row.
RECURSIVE Det(_)
Det(M) ==
    IF Len(M) = 1 THEN M[1][1]
    ELSE RSum([c \in 1..Len(M) |->
            RMul(IF c % 2 = 1 THEN M[1][c] ELSE RNeg(M[1][c]), Det(Minor(M, c)))])

Nonsingular(M) == ~RZero(Det(M))

\* Row r of A times x is the last entry of row r.
RowHolds(M, x, r) ==
    RSum([c \in 1..Len(M) |-> RMul(M[r][c], x[c])]) = M[r][Len(M) + 1]

\* C14: for an augmented matrix [A|b] with A nonsingular, solve_matrix raises
\* nothing and returns x with A * x = b, also when a diagonal entry is zero
\* and rows must be exchanged; [[0,1,-1,-2],[1,1,1,13],[1,-2,0,3]] gives
\* [7, 2, 4].
C14_SolvesNonsingular ==
    (spc # "idle" /\ Nonsingular(s_arg)) =>
        /\ spc # "raised"
        /\ spc = "done" =>
              /\ Len(s_result) = Len(s_arg)
              /\ \A r \in 1..Len(s_arg) : RowHolds(s_arg, s_result, r)
              /\ s_arg = RMatrix(TestMatrix) => s_result = <<R(7), R(2), R(4)>>

\* C14 witness: the matrix of the test, whose first diagonal entry is zero,
\* is solved.
C14_Witness ==
    /\ spc = "done"
    /\ s_arg = RMatrix(TestMatrix)
    /\ RZero(s_arg[1][1])
    /\ s_result = <<R(7), R(2), R(4)>>

\* C17: solve_matrix leaves its input unchanged: after the call the matrix
\* passed in holds the same rows, in the same order, with the same values.
C17_InputUnchanged == spc \in {"done", "raised"} => s_A = s_arg

(***************************************************************************)
(* Properties of NonlocalSpec.                                             *)
(***************************************************************************)
\* The notch of test_offset_split_notch, as given or as ComplexPolygon([notch])
\* keeps it.
NotchInput == n_complex.exterior \in {<<Notch>>, <<inverted(Notch)>>}

\* The number of polygons of the returned ComplexPolygon.
ReturnedPolygons == Len(n_result[1].exterior) + Len(n_result[1].interior)

C12_EveryBoundaryOffset ==
    (npc = "done" /\ n_complex = Holed /\ RAbs(n_amount) = Rat(1, 10)) =>
        /\ Len(n_result[1].interior) = 1
        /\ n_amount = Rat(-1, 10) =>
               /\ n_result[1].interior =
                      << << <<Rat(9, 10), Rat(9, 10)>>, <<Rat(9, 10), Rat(21, 10)>>,
                            <<Rat(21, 10), Rat(21, 10)>>, <<Rat(21, 10), Rat(9, 10)>> >> >>
               /\ n_result[1].exterior =
                      << << <<Rat(1, 10), Rat(1, 10)>>, <<Rat(1, 10), Rat(29, 10)>>,
                            <<Rat(29, 10), Rat(29, 10)>>, <<Rat(29, 10), Rat(1, 10)>> >> >>

\* C15: nonlocal_offset returns a ComplexPolygon for every input: no
\* exception, and no ZeroDivisionError in particular, leaves it.
C15_NoZeroDivisionEscapes == npc # "raised"

(***************************************************************************)
(* Properties of ContainsSpec.                                             *)
(***************************************************************************)
\* Twice the signed area of the triangle a, b, c of exact points.
RCross(a, b, c) ==
    RSub(RMul(RSub(b[1], a[1]), RSub(c[2], a[2])),
         RMul(RSub(b[2], a[2]), RSub(c[1], a[1])))

\* p lies on the closed segment from a to b.
OnClosedSegment(a, b, p) ==
    /\ RZero(RCross(a, b, p))
    /\ (RLe(a[1], p[1]) /\ RLe(p[1], b[1])) \/ (RLe(b[1], p[1]) /\ RLe(p[1], a[1]))
    /\ (RLe(a[2], p[2]) /\ RLe(p[2], b[2])) \/ (RLe(b[2], p[2]) /\ RLe(p[2], a[2]))

OnBoundary(points, p) ==
    \E i \in 1..Len(points) : OnClosedSegment(points[i], points[(i % Len(points)) + 1], p)

\* The edge from a to b passes the level of p to the right of p; an edge
\* counts for the level of its lower end and not for that of its upper end,
\* so that a vertex on the level counts once where the boundary crosses the
\* level and twice or not at all where it only touches it.
PassesRight(a, b, p) ==
    /\ RLt(p[2], a[2]) # RLt(p[2], b[2])
    /\ IF RLt(a[2], b[2]) THEN RLt(R(0), RCross(a, b, p)) ELSE RLt(RCross(a, b, p), R(0))

\* The even-odd rule, the boundary included.
EvenOdd(points, p) ==
    \/ OnBoundary(points, p)
    \/ Cardinality({i \in 1..Len(points) :
            PassesRight(points[i], points[(i % Len(points)) + 1], p)}) % 2 = 1

\* C16: when contains has returned, its value is TRUE exactly for the points
\* inside the polygon or on its boundary under the even-odd rule, and FALSE
\* for every point outside, level with a vertex or not.
C16_EvenOddContains == cpc = "done" => (c_result <=> EvenOdd(c_polygon, c_p))

(***************************************************************************)
(* Properties of FrangeSpec.                                               *)
(***************************************************************************)
\* v lies between a and b, the ends included.
Between(v) == Min(fr_a, fr_b) <= v /\ v <= Max(fr_a, fr_b)

\* v lies strictly before b on the way from a to b.
StrictlyBefore(v) == Between(v) /\ v # fr_b

\* step leads from a to b, or there is no way to go.
Towards == fr_a = fr_b \/ (fr_b - fr_a) * fr_step > 0

\* How many of a, a + step, a + 2 * step, ... come strictly before b.
Before ==
    CHOOSE n \in 0..(2 * FrangeMax + 1) :
        /\ \A k \in 0..(n - 1) : StrictlyBefore(fr_a + k * fr_step)
        /\ ~StrictlyBefore(fr_a + n * fr_step)

\* C18: when frange(a, b, step, inclusive=True) has ended, it has yielded
\* a, a + step, ... for exactly the values strictly before b and then b, once
\* and last; every value lies between a and b; for a = b it has yielded a
\* alone.
C18_FrangeInclusive ==
    (frpc = "done" /\ fr_inclusive) =>
        /\ Towards =>
               fr_yielded = [k \in 1..Before |-> fr_a + (k - 1) * fr_step] \o <<fr_b>>
        /\ \A k \in 1..Len(fr_yielded) : Between(fr_yielded[k])
        /\ fr_a = fr_b => fr_yielded = <<fr_a>>

(***************************************************************************)
(* Properties of BatchSpec.                                                *)
(***************************************************************************)
\* The lines a and b share an x.
OverlapInX(a, b) == a[1][1] <= b[2][1] /\ b[1][1] <= a[2][1]

\* In the result the line l follows the line p in its shape.
Continued(p, l) ==
    \E s \in 1..Len(b_result) : \E q \in 1..(Len(b_result[s]) - 1) :
        b_result[s][q] = p /\ b_result[s][q + 1] = l

\* In the result the line l is the first of a shape.
Opens(l) == \E s \in 1..Len(b_result) : b_result[s][1] = l

\* The lines of level k - 1, by index, whose shapes are still open when line
\* j of level k is placed and which overlap it.
OpenOverlapping(k, j) ==
    IF k = 1
    THEN {}
    ELSE {i \in 1..Len(b_scanlines[k - 1]) :
             /\ OverlapInX(b_scanlines[k - 1][i], b_scanlines[k][j])
             /\ \A earlier \in 1..(j - 1) :
                    ~Continued(b_scanlines[k - 1][i], b_scanlines[k][earlier])}

\* Every level has one line, and it overlaps the line of the level before.
Convex ==
    /\ \A k \in 1..Len(b_scanlines) : Len(b_scanlines[k]) = 1
    /\ \A k \in 2..Len(b_scanlines) :
           OverlapInX(b_scanlines[k - 1][1], b_scanlines[k][1])

\* C19: when batch_scanlines has returned, every scanline follows, in its
\* shape, the first line of the level before that overlaps it in X and was
\* still open, a wider line that contains the earlier one included; it opens
\* a shape only when there is no such line; and the scanlines of a convex
\* outline make one batch.
C19_BatchedByOverlap ==
    bpc = "done" =>
        /\ \A k \in 1..Len(b_scanlines) : \A j \in 1..Len(b_scanlines[k]) :
               IF OpenOverlapping(k, j) = {}
               THEN Opens(b_scanlines[k][j])
               ELSE Continued(b_scanlines[k - 1][SetMin(OpenOverlapping(k, j))],
                              b_scanlines[k][j])
        /\ Convex => Len(b_result) = 1

(***************************************************************************)
(* The min_area filter of trapezoidal (TrapSpec).                          *)
(***************************************************************************)
\* The trapezoid t of the sweep is among the polygons returned.
Kept(t) ==
    /\ simplify(t) # None
    /\ \E j \in 1..Len(result) : result[j] = simplify(t)

\* C20: when trapezoidal, called with min_area = m, has returned, the area
\* the filter uses for a trapezoid of the sweep, trap_area, is the area of
\* the quad (prior-left, this-left, this-right, prior-right), and the
\* trapezoid is discarded exactly when that area is below m; a triangle with
\* its apex on the upper level is kept when its area is at least m.
C20_FilterByTrueArea ==
    (Returned /\ min_area # None) =>
        \A i \in 1..Len(trapezoids) :
            /\ trap_area(trapezoids[i]) = Shoelace2(trapezoids[i])
            /\ Kept(trapezoids[i])
                   <=> Shoelace2(trapezoids[i]) >= min_area[1] * 2 * Scale

(***************************************************************************)
(* The event loop of nonlocal_offset (NonlocalSpec).                       *)
(***************************************************************************)
\* The least collision of every ray of the list that has one, over the
\* edges that do not end at the ray, within the edge's span and at a
\* positive distance.
CandidatesWith(rays, props) ==
    Solutions([i \in 1..Len(rays) |-> find_collisions(rays[i], props[1], props[2])])

Candidates(rays) ==
    CandidatesWith(rays, inner_properties([i \in 1..Len(rays) |-> rays[i].p]))

\* The list has a collision, and the least one is within amount.
SplitsWithin(candidates, amount) ==
    candidates # <<>> /\ RLe(MinOffset(candidates)[4], amount)

\* The event found for the list is the least collision, or none when there
\* is no collision.
LeastEvent(event, candidates) ==
    IF candidates = <<>> THEN event = None
    ELSE event # None /\ event[1][1] = MinOffset(candidates)[4]

\* C21: in the loop of nonlocal_offset the split event of every ray list is
\* its least collision, and when nonlocal_offset has returned no ray list it
\* emitted unsplit had a collision within the amount.
C21_SplitAtLeastCollision ==
    /\ npc = "while" =>
           \A i \in 1..Len(n_offsets) :
               LeastEvent(n_offsets[i][2], Candidates(n_offsets[i][1]))
    /\ npc = "done" =>
           \A i \in 1..Len(n_all_rays) :
               ~SplitsWithin(Candidates(n_all_rays[i]), n_amount)

\* count rays of the list in their cyclic order, from the ray at index from.
Cyclic(rays, from, count) ==
    [k \in 1..count |-> rays[((from + k - 2) % Len(rays)) + 1]]

\* The index after l in the cyclic order of a list of n.
After(l, n) == (l % n) + 1

\* parts are the sub-lists of a split of rays by the vertex c on the edge
\* from l to the index after l: the rays after l up to the one before c with
\* one more ray at their end, and one more ray followed by the rays after c
\* up to l; a sub-list without two of the rays is not kept.
PartitionedAt(rays, parts, c, l) ==
    LET n == Len(rays)
        a == Cyclic(rays, After(l, n), (c - After(l, n) + n) % n)
        b == Cyclic(rays, After(c, n), (l - c + n) % n)
    IN  /\ c # l /\ c # After(l, n)
        /\ Len(parts) = (IF Len(a) > 1 THEN 1 ELSE 0) + (IF Len(b) > 1 THEN 1 ELSE 0)
        /\ Len(a) > 1 =>
               /\ Len(parts[1]) = Len(a) + 1
               /\ SubSeq(parts[1], 1, Len(a)) = a
        /\ Len(b) > 1 =>
               /\ Len(parts[Len(parts)]) = Len(b) + 1
               /\ Tail(parts[Len(parts)]) = b

\* The event of the list is a split by the vertex and on the edge of the
\* least collision.
SplitByLeast(rays, event, least) ==
    \E c, l \in 1..Len(rays) :
        /\ rays[c].p = least[2]
        /\ rays[l].p = least[1].p
        /\ PartitionedAt(rays, event[2], c, l)

\* Every list that has a split event is split as the claim describes.
PartitionedEvents ==
    \A i \in 1..Len(n_offsets) :
        n_offsets[i][2] # None =>
            SplitByLeast(n_offsets[i][1], n_offsets[i][2][1],
                         MinOffset(Candidates(n_offsets[i][1])))

\* Every round of the loop splits the lists with an event as described.
SplitPartitions == [][NonlocalSplit => PartitionedEvents]_vars

\* The sub-lists are processed further with the budget reduced by the
\* distance of an event of the round.
BudgetReduced ==
    [][NonlocalSplit =>
          \E i \in 1..Len(n_offsets) :
              /\ n_offsets[i][2] # None
              /\ n_amount' = RSub(n_amount, n_offsets[i][2][1][1])]_vars

\* C23: a round of the loop of nonlocal_offset splits every ray list with an
\* event into the rays from l + 1 up to the one before c and the rays after
\* c up to l, the ray of c in neither, every kept sub-list with one merged
\* ray at the cut; the sub-lists keep the base points of their rays and are
\* processed further with the budget reduced by the distance of the event.
C23_SplitPartitions == SplitPartitions /\ BudgetReduced

(***************************************************************************)
(* A ray list without collisions (NonlocalSpec)                            *)
(***************************************************************************)
\* No ray of the list has a collision: every candidate is out of span,
\* non-positive or singular.
NoCollision(rays) == Candidates(rays) = <<>>

\* The split-event search reports "no split event" for the list.
ReportsNoEvent(rays) == safe_find_first_split_event(rays) = Ok(None)

\* The lists a round of the loop hands to the split-event search.
Searched(lists) == \A i \in 1..Len(lists) : NoCollision(lists[i]) => ReportsNoEvent(lists[i])

\* C22: if no ray of a ray list has any collision, the split-event search
\* reports "no split event" for it and no exception is raised: every list a
\* round of the loop searches that is without collisions gets None, and
\* nonlocal_offset does not leave that round with an exception of the search.
C22_NoCollisionNoEvent ==
    [][NonlocalSplit => Searched(next_rays(n_offsets, n_amount))]_vars

(***************************************************************************)
(* The sizes of the parts of a split event (NonlocalSpec)                  *)
(***************************************************************************)
\* The loop processes the event of the i-th ray list in its next round.
Processed(i) ==
    /\ n_offsets[i][2] # None
    /\ RLe(n_offsets[i][2][1][1], n_amount)

\* Every part has at least 3 rays and fewer rays than the list.
Shrinks(rays, parts) ==
    \A k \in 1..Len(parts) : 3 <= Len(parts[k]) /\ Len(parts[k]) < Len(rays)

\* C24: every sub-list produced by a split event has at least 3 rays and
\* strictly fewer rays than the list it was split from, which is what bounds
\* the number of split events of a boundary of n vertices by n.
C24_PartsShrink ==
    npc = "while" =>
        \A i \in 1..Len(n_offsets) :
            Processed(i) => Shrinks(n_offsets[i][1], n_offsets[i][2][1][2])

(***************************************************************************)
(* The walls of the sweep of trapezoidal (TrapSpec)                        *)
(***************************************************************************)
\* The lower and the upper Y of a segment.
LowerY(l) == Min(l[1][2], l[2][2])

UpperY(l) == Max(l[1][2], l[2][2])

\* The walls of the active pairs.
ActiveWalls == UNION {Range(active[i]) \ {None} : i \in 1..Len(active)}

\* How often the segment is in the queue of the i-th polygon.
Queued(i, l) == Cardinality({k \in 1..Len(sliced[i].heap) : sliced[i].heap[k][2] = l})

\* The sweep has visited the level y last: the queue of a polygon holds its
\* segments that start above y, once each, and the active walls are the
\* segments with y in [lower Y, upper Y).
SweptTo(y) ==
    \A i \in 1..Len(sliced) : \A l \in Range(exact_segments(sliced[i].points)) :
        /\ Queued(i, l) = IF LowerY(l) > y THEN 1 ELSE 0
        /\ l \in ActiveWalls <=> (LowerY(l) <= y /\ y < UpperY(l))

\* Before the first level every segment is in its queue once and no wall is
\* active.
Unswept ==
    /\ active = <<>>
    /\ \A i \in 1..Len(sliced) : \A l \in Range(exact_segments(sliced[i].points)) :
           Queued(i, l) = 1

\* C25: every non-horizontal segment is taken from the queue of its polygon
\* exactly once, is an active wall from the level of its lower endpoint on,
\* at every level strictly between its endpoints, and no longer from the
\* level of its upper endpoint on; a horizontal segment is taken from the
\* queue at its level and is never active.
C25_ActiveBetweenEndpoints ==
    tpc \in {"sweep", "filter", "done"} =>
        IF prior = None THEN Unswept ELSE SweptTo(prior[1])

\* A wall is active at a level strictly between its endpoints, and a
\* horizontal segment has left the queue without being active.
C25_Witness ==
    /\ tpc = "sweep" /\ prior # None
    /\ \E l \in ActiveWalls : LowerY(l) < prior[1] /\ prior[1] < UpperY(l)
    /\ \E i \in 1..Len(sliced) : \E l \in Range(exact_segments(sliced[i].points)) :
           LowerY(l) = UpperY(l) /\ LowerY(l) <= prior[1] /\ Queued(i, l) = 0

\* The lowest level of the sweep.
FirstLevel ==
    CHOOSE y \in {polygons[i][j][2] : <<i, j>> \in {ij \in (1..Len(polygons)) \X (1..MaxCoord * 4) :
                                                      ij[2] <= Len(polygons[ij[1]])}} :
        \A i \in 1..Len(polygons) : \A j \in 1..Len(polygons[i]) : y <= polygons[i][j][2]

\* C28: at every level the walls collected for the next active list are even
\* in number, so no wall is paired with None and the loop body never fails on
\* a pair; no trapezoid is appended at the first level; after the last level
\* the active list is empty.
C28_WallsInPairs ==
    /\ tpc # "raised"
    /\ \A i \in 1..Len(active) : active[i][1] # None /\ active[i][2] # None
    /\ (tpc \in {"call", "sweep"} /\ (prior = None \/ prior = Some(FirstLevel)))
           => trapezoids = <<>>
    /\ tpc \in {"filter", "done"} => active = <<>>

\* The sweep is between two levels with four walls collected, in two pairs,
\* and trapezoids appended below them.
C28_Witness ==
    /\ tpc = "sweep" /\ prior # None /\ prior # Some(FirstLevel)
    /\ Len(active) = 2 /\ trapezoids # <<>>

(***************************************************************************)
(* rebuild on degenerate input (PipeSpec)                                  *)
(***************************************************************************)
\* rebuild has called recreate_polygons with no fragment: no polygon was
\* given or none was left by simplify, or every fragment cancelled in
\* decouple.
NothingLeft ==
    /\ call = "rebuild"
    /\ ppc \in {"raised", "collate", "done"}
    /\ r_segments = <<>>

\* C27: rebuild treats degenerate input as an empty result, not as an error:
\* when no polygon remains after simplify, or every fragment cancels in
\* decouple, it returns the empty list.
C27_DegenerateIsEmpty ==
    NothingLeft => ppc # "raised" /\ (ppc = "done" => returned = <<>>)

(***************************************************************************)
(* The walks of recreate_polygons (RecreateFair)                           *)
(***************************************************************************)
\* A step of recreate_polygons that takes a fragment: the start of a walk,
\* or a step of a walk that does not raise.
Takes == (RecreateStart \/ RecreateStep) /\ ppc' # "raised"

\* The fragment taken was still in valid and is no longer: it is in no
\* polygon built before, and valid is smaller by one.
TakenOnce == r_l' \in r_valid /\ r_valid' = r_valid \ {r_l'}

\* A walk ends: "assert(size != len(valid))" holds.
AssertHolds == (ppc = "while p2" /\ ppc' = "while valid") => r_size # Cardinality(r_valid')

\* The call is over, with a return or an exception.
PipeOver == ppc \in {"done", "raised"}

\* C26: recreate_polygons terminates, returning or raising; each step of the
\* inner walk and each outer iteration removes a fragment from the remaining
\* set; no fragment is placed in two polygons; the assertion on size never
\* fails.
C26_WalksShrink ==
    /\ [][Takes => (TakenOnce /\ AssertHolds)]_vars
    /\ <>PipeOver

\* recreate_polygons has returned two polygons.
C26_Witness ==
    /\ call = "recreate_polygons" /\ ppc = "done"
    /\ Len(returned) = 2 /\ r_valid = {}

(***************************************************************************)
(* Loops that are not directed all the way round (RecreateFair)            *)
(***************************************************************************)
\* The end points of the fragments of a set.
PointsOf(S) == {l[1] : l \in S} \cup {l[2] : l \in S}

\* The fragments form closed loops: two of them meet in every point.
ClosedLoops(S) == S # {} /\ \A p \in PointsOf(S) : Cardinality(by_point(S, p)) = 2

\* A fragment is directed against a neighbour: two fragments end in the same
\* point.
AgainstNeighbour(S) == \E l, k \in S : l # k /\ l[2] = k[2]

\* recreate_polygons was called with closed loops of fragments of which one
\* is directed against its neighbours.
Misdirected ==
    /\ call = "recreate_polygons" /\ ppc \notin {"recreate_polygons", "raised"}
    /\ ClosedLoops(r_index) /\ AgainstNeighbour(r_index)

\* No polygon built lists a point twice.
NoPointTwice ==
    \A i \in 1..Len(r_polygons) : \A j, k \in 1..Len(r_polygons[i]) :
        j # k => r_polygons[i][j] # r_polygons[i][k]

\* C29: recreate_polygons follows fragments head to tail only: for a closed
\* loop with a fragment directed against its neighbours every choice of the
\* starting fragment ends in a raised error, and no polygon that lists a
\* point twice is ever returned.
C29_HeadToTailOnly ==
    /\ [](call = "recreate_polygons" => NoPointTwice)
    /\ [](Misdirected => ppc # "done")
    /\ (Misdirected ~> ppc = "raised")

\* A walk on a misdirected loop has raised after taking two fragments.
C29_Witness ==
    /\ call = "recreate_polygons" /\ ppc = "raised"
    /\ r_segments \in FlippedLoops
    /\ Cardinality(r_index \ r_valid) >= 2


(***************************************************************************)
(* C30 (MotionSpec).                                                       *)
(***************************************************************************)

Fields == {"x", "y", "z", "f"}

\* The value of a field the last Motion among cmds names, or start when no
\* Motion among them names it.
RECURSIVE LastCommanded(_, _, _)
LastCommanded(cmds, field, start) ==
    IF cmds = <<>>
    THEN start
    ELSE IF IsMotion(cmds[Len(cmds)]) /\ cmds[Len(cmds)][field] # None
         THEN cmds[Len(cmds)][field]
         ELSE LastCommanded(SubSeq(cmds, 1, Len(cmds) - 1), field, start)

\* The commands Cut.time has folded so far.
Folded == SubSeq(m_commands, 1, m_ix - 1)

\* Every round of Cut.time on a Motion leaves in state each field of the
\* command that is not None, and the old field otherwise.
MergesSpecified ==
    [][(TimeStep /\ IsMotion(m_commands[m_ix]))
          => m_state' = merge_specified(m_state, m_commands[m_ix])]_vars

\* The state Cut.time tracks holds, for every field, the last value commanded.
Tracked ==
    mpc # "idle" => \A field \in Fields :
                        m_state[field] = LastCommanded(Folded, field, Some(0))

\* C30: Motion.merge(other) takes x, y, z and f from other wherever other
\* names the field, the value 0 included, and from self otherwise; so the
\* state Cut.time folds with merge is, on every axis, the last commanded value.
C30_MergeTakesSpecified == MergesSpecified /\ []Tracked

====
